---- MODULE Spec2Model ----
(***************************************************************************)
(* Bayesian venue ranking engine (python/bayes_ranker.py), its FastAPI     *)
(* host (python/api_server.py), the rule-based ranking prototype           *)
(* (python/ranking_logic.py) and the OSM extract downloader                *)
(* (scripts/download_geofabrik.py).                                        *)
(*                                                                         *)
(* Reals are fixed-point integers:                                         *)
(*   feature values            1/100    (0.5  -> 50)                       *)
(*   coefficients, stds        1/10     (-1.5 -> -15)                      *)
(*   variances (covariance)    1/100    (0.25 -> 25)                       *)
(*   linear predictor eta      1/1000   (coefficient * feature)            *)
(*   probability samples       1/1000                                      *)
(*   probability, p10, p90,                                                *)
(*   confidence                1/10000                                     *)
(* A float NaN is the value NaN; every float operation yields NaN as soon  *)
(* as one operand is NaN and every comparison with NaN is false.           *)
(* An optional cell (None / NaN in a DataFrame) is <<>>, a present one <<v>>.*)
(***************************************************************************)
EXTENDS Integers, Sequences, FiniteSets, TLC

VARIABLES
    model,   \* api_server._model / the ModelArtifacts a core call works on
    rng,     \* state of numpy's global RandomState (np.random)
    seed,    \* last argument given to np.random.seed, <<>> if never seeded
    pymc,    \* bayes_ranker.PYMC_AVAILABLE, as probed at import
    call,    \* the operation under way and its arguments
    out,     \* what the last operation returned or raised
    disk,    \* content of the file ModelArtifacts.save writes, <<>> if none
    files    \* data/osm: what download_geofabrik has left of each region's files

vars == <<model, rng, seed, pymc, call, out, disk, files>>

\* ------------------------------------------------------------------ bounds

MaxPreds == 3     \* longest list handed to rank
MaxRows == 2      \* most rows of a DataFrame / places of a request
MaxSamples == 2   \* largest n_samples of a predict call

\* --------------------------------------------------------------- sequences

Range(s) == {s[i] : i \in 1..Len(s)}

SeqsUpTo(S, n) == UNION {[1..k -> S] : k \in 0..n}

\* a sequence as a stored array (np.array): its elements are computed once
np_array(s) == s \o <<>>

RECURSIVE SumSeq(_)
SumSeq(s) == IF s = <<>> THEN 0 ELSE Head(s) + SumSeq(Tail(s))

Count(s, x) == Cardinality({i \in 1..Len(s) : s[i] = x})

IsPermutation(s, t) ==
    /\ Len(s) = Len(t)
    /\ \A x \in Range(s) \cup Range(t) : Count(s, x) = Count(t, x)

\* ------------------------------------------------------------------ Ranker

\* key_func of rank: p.probability for "mean", p.p10 for "lower_bound"
key_func(strategy, p) == IF strategy = "mean" THEN p.probability ELSE p.p10

\* One step of a stable descending insertion: x goes behind every element
\* whose key is >= its own, in front of the first strictly smaller one.
RECURSIVE InsertDesc(_, _, _)
InsertDesc(sorted, x, strategy) ==
    IF sorted = <<>> THEN <<x>>
    ELSE IF key_func(strategy, Head(sorted)) >= key_func(strategy, x)
         THEN <<Head(sorted)>> \o InsertDesc(Tail(sorted), x, strategy)
         ELSE <<x>> \o sorted

\* the same, but x overtakes the elements with an equal key (ties reversed)
RECURSIVE InsertDescUnstable(_, _, _)
InsertDescUnstable(sorted, x, strategy) ==
    IF sorted = <<>> THEN <<x>>
    ELSE IF key_func(strategy, Head(sorted)) > key_func(strategy, x)
         THEN <<Head(sorted)>> \o InsertDescUnstable(Tail(sorted), x, strategy)
         ELSE <<x>> \o sorted

\* sorted(predictions, key=key_func, reverse=True): Python's sort is stable,
\* and reverse=True keeps the input order of equal keys.
RECURSIVE sorted_reverse(_, _)
sorted_reverse(predictions, strategy) ==
    IF predictions = <<>> THEN <<>>
    ELSE InsertDesc(sorted_reverse(SubSeq(predictions, 1, Len(predictions) - 1), strategy),
                    predictions[Len(predictions)], strategy)

RECURSIVE sorted_unstable(_, _)
sorted_unstable(predictions, strategy) ==
    IF predictions = <<>> THEN <<>>
    ELSE InsertDescUnstable(
             sorted_unstable(SubSeq(predictions, 1, Len(predictions) - 1), strategy),
             predictions[Len(predictions)], strategy)

\* mutants of rank: ascending order; ties reordered; unknown strategy -> "mean"
rank_ascending(predictions, strategy) ==
    IF strategy \in {"mean", "lower_bound"}
    THEN [status |-> "ok",
          value |-> [i \in 1..Len(predictions) |->
                        sorted_reverse(predictions, strategy)[Len(predictions) + 1 - i]]]
    ELSE [status |-> "ValueError", value |-> <<>>]

rank_unstable(predictions, strategy) ==
    IF strategy \in {"mean", "lower_bound"}
    THEN [status |-> "ok", value |-> sorted_unstable(predictions, strategy)]
    ELSE [status |-> "ValueError", value |-> <<>>]

rank_silent_default(predictions, strategy) ==
    IF strategy = "lower_bound"
    THEN [status |-> "ok", value |-> sorted_reverse(predictions, "lower_bound")]
    ELSE [status |-> "ok", value |-> sorted_reverse(predictions, "mean")]

\* rank(predictions, strategy): the sorted list, or ValueError and no list
rank(predictions, strategy) ==
    IF strategy = "mean"
    THEN [status |-> "ok", value |-> sorted_reverse(predictions, "mean")]
    ELSE IF strategy = "lower_bound"
    THEN [status |-> "ok", value |-> sorted_reverse(predictions, "lower_bound")]
    ELSE [status |-> "ValueError", value |-> <<>>]

\* PredictionResult values handed to rank: two venues, two levels of each key
RankPredictions ==
    [venue_id : {"a", "b"}, probability : {3000, 7000}, p10 : {1000, 2000}]

RankStrategies == {"mean", "lower_bound", "median"}

\* the file names download_geofabrik derives from its regions
FILENAMES == {"europe-spain", "asia-japan"}

\* data/osm before any download: no .osm.pbf and no .osm.pbf.md5 file
NoFiles == [f \in FILENAMES |-> [pbf |-> "absent", md5 |-> "absent"]]

IdleOut == [op |-> "none", status |-> "none"]

InitRank ==
    /\ model = <<>>
    /\ rng = 0
    /\ seed = <<>>
    /\ pymc = FALSE
    /\ disk = <<>>
    /\ files = NoFiles
    /\ out = IdleOut
    /\ call \in [op : {"rank"},
                 predictions : SeqsUpTo(RankPredictions, MaxPreds),
                 strategy : RankStrategies]

Rank ==
    /\ call.op = "rank"
    /\ out.op = "none"
    /\ out' = [op |-> "rank"] @@ rank(call.predictions, call.strategy)
    /\ UNCHANGED <<model, rng, seed, pymc, call, disk, files>>

NextRank == Rank

SpecRank == InitRank /\ [][NextRank]_vars

NonIncreasing(s, strategy) ==
    \A i \in 1..(Len(s) - 1) : key_func(strategy, s[i]) >= key_func(strategy, s[i + 1])

RankDone == out.op = "rank" /\ out.status = "ok"

\* C1: rank(predictions, "mean") is a permutation of the input with
\* non-increasing probability, rank(predictions, "lower_bound") one with
\* non-increasing p10; nothing is added, dropped or duplicated.
C1_RankSortedPermutation ==
    RankDone =>
        /\ IsPermutation(out.value, call.predictions)
        /\ NonIncreasing(out.value, call.strategy)

\* a list of three with a duplicate entry and keys out of order has been ranked
C1_Witness ==
    /\ RankDone
    /\ Len(call.predictions) = 3
    /\ call.predictions[1] = call.predictions[3]
    /\ ~NonIncreasing(call.predictions, call.strategy)

KeysOf(s, strategy) == {key_func(strategy, s[i]) : i \in 1..Len(s)}

WithKey(s, strategy, k) == SelectSeq(s, LAMBDA p : key_func(strategy, p) = k)

\* C2: rank is stable: predictions with exactly equal sort key keep their
\* relative input order, for either strategy.
C2_RankStable ==
    RankDone =>
        \A k \in KeysOf(call.predictions, call.strategy) :
            WithKey(out.value, call.strategy, k) = WithKey(call.predictions, call.strategy, k)

\* two different predictions with the same key were ranked, the later one
\* being a different venue
C2_Witness ==
    /\ RankDone
    /\ \E i, j \in 1..Len(call.predictions) :
          /\ i < j
          /\ call.predictions[i] # call.predictions[j]
          /\ key_func(call.strategy, call.predictions[i])
               = key_func(call.strategy, call.predictions[j])

\* C3: a strategy other than "mean" / "lower_bound" ends in an input error
\* and returns no ordering; there is no silent default.
C3_UnknownStrategyIsError ==
    (out.op = "rank" /\ call.strategy \notin {"mean", "lower_bound"}) =>
        (out.status = "ValueError" /\ out.value = <<>>)

C3_Witness ==
    /\ out.op = "rank"
    /\ call.strategy = "median"
    /\ Len(call.predictions) = 2

\* ------------------------------------------------------------------ floats

\* float('nan'): what np.clip, astype(float) and the arithmetic after them
\* yield for a missing cell
NaN == -1000000

IsNaN(x) == x = NaN

\* comparisons of floats: false as soon as one side is NaN
FLe(a, b) == ~IsNaN(a) /\ ~IsNaN(b) /\ a <= b

FEq(a, b) == ~IsNaN(a) /\ ~IsNaN(b) /\ a = b

Min(a, b) == IF a <= b THEN a ELSE b

Max(a, b) == IF a >= b THEN a ELSE b

\* np.clip(x, lo, hi)
Clip(x, lo, hi) == IF IsNaN(x) THEN NaN ELSE Max(lo, Min(hi, x))

\* optional cells of a DataFrame / optional fields of a request
None == <<>>

Some(v) == <<v>>

IsNone(c) == c = <<>>

\* Series.fillna(v)
fillna(c, v) == IF IsNone(c) THEN v ELSE c[1]

\* Series.astype(float): a missing cell becomes NaN, True/False 1.0/0.0
astype_float(c) == IF IsNone(c) THEN NaN ELSE 100 * c[1]

\* ------------------------------------------------------- constants & tables

MAX_DISTANCE_M == 3000

\* MAX_RATING = 10.0: ratings are carried in tenths, so rating / MAX_RATING in
\* hundredths is the rating in tenths
MAX_RATING == 10

PROXY_RATING_THRESHOLD == 42    \* 4.2, in tenths

PROXY_REVIEW_THRESHOLD == 100

VIBE_CATEGORY_AFFINITY ==
    [insta    |-> [cafe |-> 95, restaurant |-> 80, scenic |-> 90, indoor |-> 70, grocery |-> 30],
     work     |-> [cafe |-> 95, restaurant |-> 50, indoor |-> 70, scenic |-> 30, grocery |-> 20],
     romantic |-> [restaurant |-> 95, scenic |-> 85, cafe |-> 70, indoor |-> 60, grocery |-> 10],
     budget   |-> [grocery |-> 90, cafe |-> 70, restaurant |-> 60, indoor |-> 50, scenic |-> 80],
     lively   |-> [restaurant |-> 85, cafe |-> 60, indoor |-> 80, scenic |-> 50, grocery |-> 20]]

\* PRIOR_CONFIG: key -> <<mean, std>>, in tenths
PRIOR_CONFIG ==
    [intercept    |-> <<0, 20>>,
     distance     |-> <<-15, 5>>,
     rating       |-> <<10, 5>>,
     log_reviews  |-> <<5, 3>>,
     vibe_match   |-> <<12, 5>>,
     is_veg       |-> <<5, 5>>,
     is_open      |-> <<3, 3>>,
     completeness |-> <<3, 3>>]

\* the keys of PRIOR_CONFIG in the order the table lists them
PRIOR_KEYS ==
    <<"intercept", "distance", "rating", "log_reviews",
      "vibe_match", "is_veg", "is_open", "completeness">>

\* feature_names of fit_model and get_default_model
FEATURE_NAMES ==
    <<"intercept", "distance_norm", "rating_norm", "log_reviews",
      "vibe_match", "is_veg", "is_open", "completeness">>

\* PRIOR_CONFIG.get(name, (0.0, 1.0))
PRIOR_CONFIG_get(name) ==
    IF name \in DOMAIN PRIOR_CONFIG THEN PRIOR_CONFIG[name] ELSE <<0, 10>>

\* --------------------------------------------------------- FeatureEngineer

\* A DataFrame is [columns : set of column names, rows : sequence of
\* functions from the columns to cells].

\* np.log1p(n) / LOG_REVIEW_SCALE in hundredths, as a step function through
\* log(1 + n) / log(1000) at n = 0, 1, 10, 30, 50, 100, 200, 999
log_reviews_of(n) ==
    IF n >= 999 THEN 100
    ELSE IF n >= 200 THEN 77
    ELSE IF n >= 100 THEN 67
    ELSE IF n >= 50 THEN 57
    ELSE IF n >= 30 THEN 50
    ELSE IF n >= 10 THEN 35
    ELSE IF n >= 1 THEN 10
    ELSE 0

\* np.clip(df[col] / MAX_DISTANCE_M, 0, 1) for one cell
distance_norm_of(c) ==
    IF IsNone(c) THEN NaN ELSE Clip((100 * c[1]) \div MAX_DISTANCE_M, 0, 100)

\* VIBE_CATEGORY_AFFINITY.get(vibe, {}).get(c, 0.5)
vibe_match_of(vibe, c) ==
    IF IsNone(c) \/ vibe \notin DOMAIN VIBE_CATEGORY_AFFINITY THEN 50
    ELSE IF c[1] \in DOMAIN VIBE_CATEGORY_AFFINITY[vibe]
         THEN VIBE_CATEGORY_AFFINITY[vibe][c[1]]
         ELSE 50

\* features['is_veg'] * 0.3 when the user does not want vegetarian venues
veg_weight(x, user_wants_veg) ==
    IF user_wants_veg \/ IsNaN(x) THEN x ELSE (x * 3) \div 10

completeness_cols == <<"hasAddress", "hasPhone", "hasWebsite", "hasHours">>

\* df[available_cols].fillna(False).astype(float).mean(axis=1) for one row
completeness_of(columns, row) ==
    LET available == SelectSeq(completeness_cols, LAMBDA c : c \in columns)
    IN  IF available # <<>>
        THEN SumSeq([i \in 1..Len(available) |-> 100 * fillna(row[available[i]], 0)])
                 \div Len(available)
        ELSE 50

\* prepare_features for the row at position i (1-based) of df
feature_row(df, i, vibe, user_wants_veg) ==
    LET cols == df.columns
        row == df.rows[i]
    IN  [distance_norm |->
            IF "distance_meters" \in cols THEN distance_norm_of(row["distance_meters"])
            ELSE IF "distanceMeters" \in cols THEN distance_norm_of(row["distanceMeters"])
            ELSE 50,
         rating_norm |->
            IF "rating" \in cols THEN (10 * fillna(row["rating"], 50)) \div MAX_RATING
            ELSE 50,
         log_reviews |->
            IF "review_count" \in cols THEN log_reviews_of(fillna(row["review_count"], 0))
            ELSE IF "ratingCount" \in cols THEN log_reviews_of(fillna(row["ratingCount"], 0))
            ELSE 0,
         vibe_match |->
            IF "category" \in cols THEN vibe_match_of(vibe, row["category"]) ELSE 50,
         is_veg |->
            veg_weight(IF "is_veg" \in cols THEN astype_float(row["is_veg"])
                       ELSE IF "vegFriendly" \in cols THEN astype_float(row["vegFriendly"])
                       ELSE 0,
                       user_wants_veg),
         is_open |->
            IF "is_open" \in cols THEN 100 * fillna(row["is_open"], 0)
            ELSE IF "openNow" \in cols THEN 100 * fillna(row["openNow"], 0)
            ELSE 50,
         completeness |-> completeness_of(cols, row),
         intercept |-> 100]

\* features.columns: the columns of the DataFrame prepare_features returns,
\* in the order its assignments create them (the intercept is added last)
features_columns ==
    <<"distance_norm", "rating_norm", "log_reviews", "vibe_match", "is_veg", "is_open",
      "completeness", "intercept">>

\* prepare_features(df, vibe, user_wants_veg): one feature row per record
prepare_features(df, vibe, user_wants_veg) ==
    np_array([i \in 1..Len(df.rows) |-> feature_row(df, i, vibe, user_wants_veg)])

\* ------------------------------------------------------------- randomness

\* numpy's global generator: its state is the position in a fixed stream of
\* period 7; every draw moves one position on, np.random.seed(s) sets the
\* position
RngStates == 0..6

np_random_seed(s) == s % 7

\* the state after k draws
RngAdvance(s, k) == (s + k) % 7

\* the k-th standard normal deviate drawn from state s, quantised to -1, 0, 1
NormalDraw(s, k) == <<1, -1, 0, 1, 0, -1, 1>>[RngAdvance(s, k) + 1]

\* the k-th Bernoulli(0.3) draw (np.random.binomial(1, 0.3)) from state s
BernoulliDraw(s, k) == <<0, 1, 0, 0, 1, 0, 0>>[RngAdvance(s, k) + 1]

\* ------------------------------------------------------- PredictiveSampler

\* floor of the square root
Sqrt(v) == CHOOSE r \in 0..v : r * r <= v /\ (r + 1) * (r + 1) > v

\* scipy.special.expit on eta (1/1000), in 1/1000: the logistic sigmoid
\* sampled at multiples of 0.5, exactly 1.0 (0.0) once the float saturates
expit(eta) ==
    IF IsNaN(eta) THEN NaN
    ELSE LET h == (IF eta >= 0 THEN eta ELSE -eta) \div 500
             up == IF h >= 74 THEN 1000
                   ELSE IF h >= 12 THEN 999
                   ELSE <<500, 622, 731, 818, 881, 924, 953, 971, 982, 989, 993, 996>>[h + 1]
         IN  IF eta >= 0 THEN up ELSE 1000 - up

RECURSIVE InsertAsc(_, _)
InsertAsc(sorted, x) ==
    IF sorted = <<>> THEN <<x>>
    ELSE IF Head(sorted) <= x THEN <<Head(sorted)>> \o InsertAsc(Tail(sorted), x)
    ELSE <<x>> \o sorted

RECURSIVE SortAsc(_)
SortAsc(s) == IF s = <<>> THEN <<>> ELSE InsertAsc(SortAsc(Tail(s)), Head(s))

HasNaN(s) == \E i \in 1..Len(s) : IsNaN(s[i])

\* np.percentile(samples, q) (linear interpolation), samples in 1/1000,
\* result in 1/10000
percentile(samples, q) ==
    IF HasNaN(samples) THEN NaN
    ELSE LET a == SortAsc(samples)
             n == Len(a)
             lo == (q * (n - 1)) \div 100
             rem == (q * (n - 1)) % 100
             hi == Min(lo + 1, n - 1)
         IN  10 * a[lo + 1] + (rem * (a[hi + 1] - a[lo + 1])) \div 10

\* float(np.mean(samples)), in 1/10000
mean(samples) ==
    IF HasNaN(samples) THEN NaN ELSE (10 * SumSeq(samples)) \div Len(samples)

\* confidence = 1.0 - (p_90 - p_10)
confidence_of(p_10, p_90) ==
    IF IsNaN(p_10) \/ IsNaN(p_90) THEN NaN ELSE 10000 - (p_90 - p_10)

\* str(x) of an identifier cell [t : "str" | "int", v : its digits/characters]
str(x) == [t |-> "str", v |-> x.v]

\* the venue id predict gives the row at 0-based position idx
venue_id_of(df, idx) ==
    IF "id" \in df.columns THEN str(df.rows[idx + 1]["id"][1])
    ELSE IF "fsq_id" \in df.columns THEN str(df.rows[idx + 1]["fsq_id"][1])
    ELSE [t |-> "str", v |-> ToString(idx)]

\* beta_samples: np.random.multivariate_normal(beta_mean, covariance, n), and
\* its fallback np.random.normal(beta_mean, sqrt(diag)): sample j, coefficient
\* i is the mean plus the marginal standard deviation times the next deviate
beta_sample(m, state, j, i) ==
    LET k == Len(m.feature_names)
    IN  IF IsNaN(m.coefficients[m.feature_names[i]]) \/ IsNaN(m.covariance[i][i])
        THEN NaN
        ELSE m.coefficients[m.feature_names[i]]
               + Sqrt(m.covariance[i][i]) * NormalDraw(state, (j - 1) * k + i)

\* X[idx] @ beta for sample j: NaN as soon as a feature is NaN
eta_sample(m, state, x, j) ==
    IF \E i \in 1..Len(m.feature_names) :
          IsNaN(x[m.feature_names[i]]) \/ IsNaN(beta_sample(m, state, j, i))
    THEN NaN
    ELSE SumSeq([i \in 1..Len(m.feature_names) |->
                    beta_sample(m, state, j, i) * x[m.feature_names[i]]])

\* the PredictionResult of the row at 0-based position idx
prediction_of(m, df, features, state, n_samples, idx) ==
    LET x == features[idx + 1]
        p_samples == np_array([j \in 1..n_samples |-> expit(eta_sample(m, state, x, j))])
        p_10 == percentile(p_samples, 10)
        p_90 == percentile(p_samples, 90)
    IN  [venue_id |-> venue_id_of(df, idx),
         probability |-> mean(p_samples),
         p10 |-> p_10,
         p90 |-> p_90,
         confidence |-> confidence_of(p_10, p_90),
         features |-> x]

\* predict_with_uncertainty(model, df, vibe, user_wants_veg, n_samples) run
\* with the global generator in `state`
predict_with_uncertainty(m, df, vibe, user_wants_veg, n_samples, state) ==
    LET features == prepare_features(df, vibe, user_wants_veg)
    IN  np_array([idx1 \in 1..Len(df.rows) |->
                     prediction_of(m, df, features, state, n_samples, idx1 - 1)])

\* the n_samples predict_with_uncertainty runs with when the endpoint passes
\* none (its default of 1000), cut down to the largest sample count explored
DEFAULT_N_SAMPLES == MaxSamples

\* the generator after the n_samples * k deviates of one predict call
rng_after_predict(m, n_samples, state) ==
    RngAdvance(state, n_samples * Len(m.feature_names))

\* ------------------------------------------------- default (prior-only) model

Diag(variances) ==
    np_array([i \in 1..Len(variances) |->
                 np_array([j \in 1..Len(variances) |-> IF i = j THEN variances[i] ELSE 0])])

\* mutant: the priors looked up under the feature names, as fit does
get_default_model_by_feature_name ==
    [coefficients |-> [name \in Range(FEATURE_NAMES) |-> PRIOR_CONFIG_get(name)[1]],
     covariance |-> Diag([i \in 1..Len(FEATURE_NAMES) |->
                             PRIOR_CONFIG_get(FEATURE_NAMES[i])[2]
                               * PRIOR_CONFIG_get(FEATURE_NAMES[i])[2]]),
     feature_names |-> FEATURE_NAMES,
     n_samples |-> 0,
     trace |-> None]

get_default_model ==
    [coefficients |->
        [intercept     |-> PRIOR_CONFIG["intercept"][1],
         distance_norm |-> PRIOR_CONFIG["distance"][1],
         rating_norm   |-> PRIOR_CONFIG["rating"][1],
         log_reviews   |-> PRIOR_CONFIG["log_reviews"][1],
         vibe_match    |-> PRIOR_CONFIG["vibe_match"][1],
         is_veg        |-> PRIOR_CONFIG["is_veg"][1],
         is_open       |-> PRIOR_CONFIG["is_open"][1],
         completeness  |-> PRIOR_CONFIG["completeness"][1]],
     covariance |->
        Diag(<<PRIOR_CONFIG["intercept"][2] * PRIOR_CONFIG["intercept"][2],
               PRIOR_CONFIG["distance"][2] * PRIOR_CONFIG["distance"][2],
               PRIOR_CONFIG["rating"][2] * PRIOR_CONFIG["rating"][2],
               PRIOR_CONFIG["log_reviews"][2] * PRIOR_CONFIG["log_reviews"][2],
               PRIOR_CONFIG["vibe_match"][2] * PRIOR_CONFIG["vibe_match"][2],
               PRIOR_CONFIG["is_veg"][2] * PRIOR_CONFIG["is_veg"][2],
               PRIOR_CONFIG["is_open"][2] * PRIOR_CONFIG["is_open"][2],
               PRIOR_CONFIG["completeness"][2] * PRIOR_CONFIG["completeness"][2]>>),
     feature_names |-> FEATURE_NAMES,
     n_samples |-> 0,
     trace |-> None]

\* ------------------------------------------------------------ ProxyLabeler

\* mutant: the thresholds must be exceeded, not just met
create_proxy_labels_strict(df, state) ==
    LET n == Len(df.rows)
        review_col == IF "review_count" \in df.columns THEN "review_count" ELSE "ratingCount"
    IN  IF "rating" \notin df.columns
        THEN [status |-> "ok",
              labels |-> [i \in 1..n |-> BernoulliDraw(state, i)],
              rng |-> RngAdvance(state, n)]
        ELSE IF review_col \notin df.columns
        THEN [status |-> "KeyError", labels |-> <<>>, rng |-> state]
        ELSE [status |-> "ok",
              labels |-> [i \in 1..n |->
                            IF /\ fillna(df.rows[i]["rating"], 0) > PROXY_RATING_THRESHOLD
                               /\ fillna(df.rows[i][review_col], 0) > PROXY_REVIEW_THRESHOLD
                            THEN 1 ELSE 0],
              rng |-> state]

\* create_proxy_labels(df) run with the global generator in `state`:
\* the labels, the generator afterwards, or the KeyError of df[review_col]
create_proxy_labels(df, state) ==
    LET n == Len(df.rows)
        review_col == IF "review_count" \in df.columns THEN "review_count" ELSE "ratingCount"
    IN  IF "rating" \notin df.columns
        THEN [status |-> "ok",
              labels |-> [i \in 1..n |-> BernoulliDraw(state, i)],
              rng |-> RngAdvance(state, n)]
        ELSE IF review_col \notin df.columns
        THEN [status |-> "KeyError", labels |-> <<>>, rng |-> state]
        ELSE [status |-> "ok",
              labels |-> [i \in 1..n |->
                            IF /\ fillna(df.rows[i]["rating"], 0) >= PROXY_RATING_THRESHOLD
                               /\ fillna(df.rows[i][review_col], 0) >= PROXY_REVIEW_THRESHOLD
                            THEN 1 ELSE 0],
              rng |-> state]

\* ----------------------------------------------------------- PosteriorFitter

\* prior_means / prior_stds of the fitters: PRIOR_CONFIG.get(name, (0.0, 1.0))
\* for each name of feature_names
prior_means(feature_names) ==
    np_array([i \in 1..Len(feature_names) |-> PRIOR_CONFIG_get(feature_names[i])[1]])

prior_stds(feature_names) ==
    np_array([i \in 1..Len(feature_names) |-> PRIOR_CONFIG_get(feature_names[i])[2]])

\* prior_precisions = 1 / prior_stds ** 2, in 1/100
prior_precisions(feature_names) ==
    np_array([i \in 1..Len(feature_names) |->
                 10000 \div (prior_stds(feature_names)[i] * prior_stds(feature_names)[i])])

\* X @ beta for row r (1/1000)
eta_of(X, r, beta) == SumSeq([i \in 1..Len(beta) |-> beta[i] * X[r][i]])

\* optimize.minimize(neg_log_posterior, x0, method='BFGS', jac=gradient):
\* the library's search is represented by its first quasi-Newton step, the
\* step against gradient(x0) with the unit inverse Hessian BFGS starts from
minimize_bfgs(X, y, x0, means, precisions) ==
    np_array([i \in 1..Len(x0) |->
        x0[i]
          + (SumSeq([r \in 1..Len(X) |-> X[r][i] * (1000 * y[r] - expit(eta_of(X, r, x0)))])
               \div 10000)
          - (precisions[i] * (x0[i] - means[i])) \div 100])

\* hessian(beta)[i][i] in 1/100: prior precision plus sum of p (1 - p) x^2
hessian_diag(X, beta, precisions, i) ==
    precisions[i]
      + SumSeq([r \in 1..Len(X) |->
                   ((expit(eta_of(X, r, beta)) * (1000 - expit(eta_of(X, r, beta))))
                      \div 1000) * X[r][i] * X[r][i]]) \div 100000

\* np.linalg.inv(H), symmetrised and shifted to be positive: the library's
\* inverse is represented by the inverse of H's diagonal (1/100)
laplace_covariance(X, beta, precisions) ==
    Diag(np_array([i \in 1..Len(beta) |-> 10000 \div hessian_diag(X, beta, precisions, i)]))

\* mutant: the coefficient of the last feature is left out of the dict
_fit_with_laplace_drop_last(X, y, feature_names) ==
    LET means == prior_means(feature_names)
        precisions == prior_precisions(feature_names)
        beta_map == minimize_bfgs(X, y, means, means, precisions)
    IN  [coefficients |->
            [name \in Range(SubSeq(feature_names, 1, Len(feature_names) - 1)) |->
                beta_map[CHOOSE i \in 1..Len(feature_names) : feature_names[i] = name]],
         covariance |-> laplace_covariance(X, beta_map, precisions),
         feature_names |-> feature_names,
         n_samples |-> Len(y),
         trace |-> None]

\* _fit_with_laplace that takes n_samples from the wrong axis of X
_fit_with_laplace_counts_columns(X, y, feature_names) ==
    LET means == prior_means(feature_names)
        precisions == prior_precisions(feature_names)
        beta_map == minimize_bfgs(X, y, means, means, precisions)
    IN  [coefficients |->
            [name \in Range(feature_names) |->
                beta_map[CHOOSE i \in 1..Len(feature_names) : feature_names[i] = name]],
         covariance |-> laplace_covariance(X, beta_map, precisions),
         feature_names |-> feature_names,
         n_samples |-> Len(feature_names),
         trace |-> None]

\* _fit_with_laplace(X, y, feature_names)
_fit_with_laplace(X, y, feature_names) ==
    LET means == prior_means(feature_names)
        precisions == prior_precisions(feature_names)
        beta_map == minimize_bfgs(X, y, means, means, precisions)
    IN  [coefficients |->
            [name \in Range(feature_names) |->
                beta_map[CHOOSE i \in 1..Len(feature_names) : feature_names[i] = name]],
         covariance |-> laplace_covariance(X, beta_map, precisions),
         feature_names |-> feature_names,
         n_samples |-> Len(y),
         trace |-> None]

\* _fit_with_pymc(X, y, feature_names): the posterior of the same model, drawn
\* by a sampler with its own fixed random_seed; keeps the sampler's trace
_fit_with_pymc(X, y, feature_names) ==
    [_fit_with_laplace(X, y, feature_names) EXCEPT !.trace = Some("trace")]

\* features[feature_names].values
feature_matrix(features, feature_names) ==
    np_array([r \in 1..Len(features) |->
                 np_array([i \in 1..Len(feature_names) |-> features[r][feature_names[i]]])])

\* fit_model(df, vibe, user_wants_veg, use_pymc) with PYMC_AVAILABLE as probed
\* at import and the global generator in `state`
fit_model(df, vibe, user_wants_veg, use_pymc, PYMC_AVAILABLE, state) ==
    LET features == prepare_features(df, vibe, user_wants_veg)
        proxy == create_proxy_labels(df, state)
        X == feature_matrix(features, FEATURE_NAMES)
    IN  IF proxy.status # "ok"
        THEN [status |-> proxy.status, artifacts |-> None, y |-> <<>>, rng |-> proxy.rng]
        ELSE [status |-> "ok",
              artifacts |-> IF use_pymc /\ PYMC_AVAILABLE
                            THEN _fit_with_pymc(X, proxy.labels, FEATURE_NAMES)
                            ELSE _fit_with_laplace(X, proxy.labels, FEATURE_NAMES),
              y |-> proxy.labels,
              rng |-> proxy.rng]

\* a feature matrix with a NaN cell
MatrixHasNaN(X) == \E r \in 1..Len(X) : HasNaN(X[r])

\* the n x n matrix whose cells are all NaN
NaNMatrix(n) == np_array([i \in 1..n |-> np_array([j \in 1..n |-> NaN])])

\* _fit_with_laplace on an X with a NaN cell. The objective and the gradient
\* are NaN at x0, so BFGS stops at once with x = x0 or with a NaN point; the
\* Hessian there is NaN in every cell. What np.linalg.inv and
\* np.linalg.eigvalsh do with a NaN matrix depends on the LAPACK build:
\* they fail to converge and raise LinAlgError (eigvalsh is outside every
\* try), or they return NaN and the covariance is NaN throughout.
_fit_with_laplace_nan(X, y, feature_names) ==
    {[status |-> "LinAlgError", artifacts |-> None]}
    \cup {[status |-> "ok",
           artifacts |-> [coefficients |-> [name \in Range(feature_names) |-> c[name]],
                          covariance |-> NaNMatrix(Len(feature_names)),
                          feature_names |-> feature_names,
                          n_samples |-> Len(y),
                          trace |-> None]] :
             c \in {[name \in Range(feature_names) |-> PRIOR_CONFIG_get(name)[1]],
                    [name \in Range(feature_names) |-> NaN]}}

\* _fit_with_pymc on an X with a NaN cell: the log-probability at the
\* sampler's starting point is not finite and pm.sample raises
_fit_with_pymc_nan(X, y, feature_names) ==
    {[status |-> "SamplingError", artifacts |-> None]}

\* every way fit_model(df, vibe, user_wants_veg, use_pymc) can end
fit_model_outcomes(df, vibe, user_wants_veg, use_pymc, PYMC_AVAILABLE, state) ==
    LET features == prepare_features(df, vibe, user_wants_veg)
        proxy == create_proxy_labels(df, state)
        X == feature_matrix(features, FEATURE_NAMES)
    IN  IF proxy.status = "ok" /\ MatrixHasNaN(X)
        THEN {[status |-> o.status, artifacts |-> o.artifacts,
               y |-> np_array(proxy.labels), rng |-> proxy.rng] :
                 o \in IF use_pymc /\ PYMC_AVAILABLE
                       THEN _fit_with_pymc_nan(X, proxy.labels, FEATURE_NAMES)
                       ELSE _fit_with_laplace_nan(X, proxy.labels, FEATURE_NAMES)}
        ELSE {fit_model(df, vibe, user_wants_veg, use_pymc, PYMC_AVAILABLE, state)}

\* ------------------------------------------------------------------- inputs

StrId(v) == [t |-> "str", v |-> v]

IntId(v) == [t |-> "int", v |-> v]

CoreColumns ==
    {"id", "name", "category", "distance_meters", "rating", "review_count",
     "openNow", "vegFriendly", "hasAddress", "hasPhone", "hasWebsite", "hasHours"}

\* rows of a caller's DataFrame: the two venues A and B of the ranking
\* scenario, a venue whose distance is missing, and a venue keyed by an integer
RowA ==
    [id |-> Some(StrId("1")), name |-> Some("Great Cafe"), category |-> Some("cafe"),
     distance_meters |-> Some(500), rating |-> Some(85), review_count |-> Some(200),
     openNow |-> Some(1), vegFriendly |-> Some(1), hasAddress |-> Some(1),
     hasPhone |-> Some(1), hasWebsite |-> Some(1), hasHours |-> Some(1)]

RowB ==
    [id |-> Some(StrId("2")), name |-> Some("Average Restaurant"),
     category |-> Some("restaurant"),
     distance_meters |-> Some(1000), rating |-> Some(60), review_count |-> Some(50),
     openNow |-> Some(0), vegFriendly |-> Some(0), hasAddress |-> Some(1),
     hasPhone |-> Some(0), hasWebsite |-> Some(0), hasHours |-> Some(0)]

RowNoDistance ==
    [id |-> Some(StrId("3")), name |-> Some("Hidden Gem"), category |-> Some("cafe"),
     distance_meters |-> None, rating |-> Some(90), review_count |-> Some(30),
     openNow |-> Some(1), vegFriendly |-> Some(0), hasAddress |-> Some(1),
     hasPhone |-> Some(1), hasWebsite |-> Some(0), hasHours |-> Some(1)]

RowIntId ==
    [id |-> Some(IntId("7")), name |-> Some("Corner Grocery"), category |-> Some("grocery"),
     distance_meters |-> Some(3500), rating |-> None, review_count |-> Some(120),
     openNow |-> None, vegFriendly |-> Some(1), hasAddress |-> Some(0),
     hasPhone |-> Some(0), hasWebsite |-> Some(0), hasHours |-> Some(0)]

\* pd.DataFrame(rows) restricted to the columns `columns`
DataFrame(columns, rows) ==
    [columns |-> columns,
     rows |-> [i \in 1..Len(rows) |-> [c \in columns |-> rows[i][c]]]]

\* the tables a caller hands to predict: all columns, or no "id" column
PredictFrames ==
    {DataFrame(columns, rows) :
        columns \in {CoreColumns, CoreColumns \ {"id"}},
        rows \in SeqsUpTo({RowA, RowB, RowNoDistance, RowIntId}, MaxRows)}

\* a model fitted beforehand, to predict with
FittedModel ==
    fit_model(DataFrame(CoreColumns, <<RowA, RowB>>), "work", FALSE, FALSE, FALSE, 0).artifacts

\* ------------------------------------------------- predict as a pure function

InitPredict ==
    /\ model \in {get_default_model, FittedModel}
    /\ rng \in RngStates
    /\ seed = None
    /\ pymc = FALSE
    /\ disk = <<>>
    /\ files = NoFiles
    /\ out = IdleOut
    /\ call \in [op : {"predict"},
                 df : PredictFrames,
                 vibe : {"work"},
                 user_wants_veg : BOOLEAN,
                 n_samples : 1..MaxSamples]

\* mutant: predict keeps a count of its calls in the artifact it was given
Predict_counting ==
    /\ call.op = "predict"
    /\ out.op = "none"
    /\ model # None
    /\ out' = [op |-> "predict",
               status |-> "ok",
               value |-> predict_with_uncertainty(model, call.df, call.vibe,
                                                  call.user_wants_veg, call.n_samples, rng)]
    /\ rng' = rng_after_predict(model, call.n_samples, rng)
    /\ model' = [model EXCEPT !.n_samples = (@ + 1) % 4]
    /\ UNCHANGED <<seed, pymc, call, disk, files>>

Predict ==
    /\ call.op = "predict"
    /\ out.op = "none"
    /\ model # None
    /\ out' = [op |-> "predict",
               status |-> "ok",
               value |-> predict_with_uncertainty(model, call.df, call.vibe,
                                                  call.user_wants_veg, call.n_samples, rng)]
    /\ rng' = rng_after_predict(model, call.n_samples, rng)
    /\ UNCHANGED <<model, seed, pymc, call, disk, files>>

NextPredict == Predict

SpecPredict == InitPredict /\ [][NextPredict]_vars

\* C4: every PredictionResult of predict has 0 <= p10 <= p90 <= 1 and
\* confidence = 1 - (p90 - p10), for every model, record and n_samples >= 1.
C4_PredictionBounds ==
    out.op = "predict" =>
        \A i \in 1..Len(out.value) :
            /\ FLe(0, out.value[i].p10)
            /\ FLe(out.value[i].p10, out.value[i].p90)
            /\ FLe(out.value[i].p90, 10000)
            /\ FEq(out.value[i].confidence, 10000 - (out.value[i].p90 - out.value[i].p10))

\* C5: predict returns one PredictionResult per record, in input order, the
\* i-th carrying the i-th record's identifier unchanged.
C5_OnePerRecordSameId ==
    out.op = "predict" =>
        /\ Len(out.value) = Len(call.df.rows)
        /\ "id" \in call.df.columns =>
              \A i \in 1..Len(out.value) : out.value[i].venue_id = call.df.rows[i]["id"][1]

\* ------------------------------------------ rank_venues as a pure function

\* the rows of df that df[df[col] == venue_id] keeps: a cell equals the
\* string venue_id only if it is that string
rows_with_id(df, col, venue_id) ==
    {i \in 1..Len(df.rows) : df.rows[i][col] = Some(venue_id)}

\* int(pred.venue_id) for the venue_id str(idx) of a table without id column
int(venue_id, n) == CHOOSE idx \in 0..n : ToString(idx) = venue_id.v

\* the 1-based position of the row rank_venues takes as the original row of
\* pred, 0 when the selection is empty and .iloc[0] raises IndexError
orig_row_of(df, pred) ==
    LET found == IF "id" \in df.columns THEN rows_with_id(df, "id", pred.venue_id)
                 ELSE IF "fsq_id" \in df.columns
                      THEN rows_with_id(df, "fsq_id", pred.venue_id)
                      ELSE {int(pred.venue_id, Len(df.rows)) + 1}
    IN  IF found = {} THEN 0 ELSE CHOOSE i \in found : \A j \in found : i <= j

\* rank_venues(model, df, vibe, user_wants_veg, strategy) run with the global
\* generator in `state`: the rows of the returned DataFrame, each the original
\* row with the prediction columns and the rank
rank_venues(m, df, vibe, user_wants_veg, strategy, state) ==
    LET predictions == predict_with_uncertainty(m, df, vibe, user_wants_veg,
                                                DEFAULT_N_SAMPLES, state)
        res == rank(predictions, strategy)
    IN  IF res.status # "ok" THEN [status |-> res.status, value |-> <<>>]
        ELSE IF \E i \in 1..Len(res.value) : orig_row_of(df, res.value[i]) = 0
        THEN [status |-> "IndexError", value |-> <<>>]
        ELSE [status |-> "ok",
              value |-> np_array([i \in 1..Len(res.value) |->
                           [orig_row |-> df.rows[orig_row_of(df, res.value[i])],
                            probability |-> res.value[i].probability,
                            p10 |-> res.value[i].p10,
                            p90 |-> res.value[i].p90,
                            confidence |-> res.value[i].confidence,
                            rank |-> i]])]

\* a second venue filed under the identifier of venue A
RowSameId == [RowB EXCEPT !.id = Some(StrId("1"))]

\* the tables handed to rank_venues: with or without an id column; distinct,
\* repeated and integer identifiers
RankVenuesFrames ==
    {DataFrame(columns, rows) :
        columns \in {CoreColumns, CoreColumns \ {"id"}},
        rows \in SeqsUpTo({RowA, RowB, RowSameId, RowIntId}, MaxRows)}

InitRankVenues ==
    /\ model = get_default_model
    /\ rng \in RngStates
    /\ seed = None
    /\ pymc = FALSE
    /\ disk = <<>>
    /\ files = NoFiles
    /\ out = IdleOut
    /\ call \in [op : {"rank_venues"}, df : RankVenuesFrames, vibe : {"work"},
                 user_wants_veg : {FALSE}, strategy : {"mean", "lower_bound"}]

\* ranked_df = rank_venues(model, df, vibe, strategy)
RankVenues ==
    /\ call.op = "rank_venues"
    /\ out.op = "none"
    /\ LET res == rank_venues(model, call.df, call.vibe, call.user_wants_veg,
                              call.strategy, rng)
       IN  out' = [op |-> "rank_venues", status |-> res.status, value |-> res.value]
    /\ rng' = rng_after_predict(model, DEFAULT_N_SAMPLES, rng)
    /\ UNCHANGED <<model, seed, pymc, call, disk, files>>

NextRankVenues == RankVenues

SpecRankVenues == InitRankVenues /\ [][NextRankVenues]_vars

\* C29: for every table of n venues, repeated and non-string identifiers
\* included, rank_venues returns n rows with ranks 1..n in order, each input
\* row appearing exactly once with its own data and its own probability, p10,
\* p90 and confidence. The generator has moved on by the draws of the one
\* predict call, so the predictions are those made from the state before.
C29_RankVenuesKeepsRows ==
    [][(call.op = "rank_venues" /\ out.op = "none" /\ out'.op = "rank_venues") =>
           LET n == Len(call.df.rows)
               own == predict_with_uncertainty(model, call.df, call.vibe,
                                               call.user_wants_veg, DEFAULT_N_SAMPLES, rng)
           IN  /\ out'.status = "ok"
               /\ Len(out'.value) = n
               /\ \A k \in 1..Len(out'.value) : out'.value[k].rank = k
               /\ \E at \in Permutations(1..n) :
                      \A k \in 1..Len(out'.value) :
                          /\ out'.value[k].orig_row = call.df.rows[at[k]]
                          /\ out'.value[k].probability = own[at[k]].probability
                          /\ out'.value[k].p10 = own[at[k]].p10
                          /\ out'.value[k].p90 = own[at[k]].p90
                          /\ out'.value[k].confidence = own[at[k]].confidence]_vars

\* --------------------------------------------- the core used call after call

\* the tables of a caller of the core: with or without a "rating" column,
\* with no, one or two rows
CoreFrames ==
    {DataFrame(columns, rows) :
        columns \in {CoreColumns, CoreColumns \ {"rating"}},
        rows \in {<<>>, <<RowA, RowB>>}}
    \cup {DataFrame(CoreColumns, <<RowA>>), DataFrame(CoreColumns, <<RowNoDistance>>)}

\* the prediction lists a caller of the core hands to rank
CorePredictions ==
    {<<>>,
     <<[venue_id |-> "a", probability |-> 3000, p10 |-> 2000],
       [venue_id |-> "b", probability |-> 7000, p10 |-> 1000]>>}

SeedValues == {3}

CoreCalls ==
    [op : {"np_random_seed"}, s : SeedValues]
    \cup [op : {"get_default_model"}]
    \cup [op : {"create_proxy_labels"}, df : CoreFrames]
    \cup [op : {"fit_model"}, df : CoreFrames, vibe : {"work"},
          user_wants_veg : {FALSE}, use_pymc : {FALSE}]
    \cup [op : {"predict"}, df : CoreFrames, vibe : {"work"},
          user_wants_veg : {FALSE}, n_samples : 1..MaxSamples]
    \cup [op : {"rank"}, predictions : CorePredictions, strategy : RankStrategies]
    \cup [op : {"prepare_features"}, df : CoreFrames, vibe : {"work"},
          user_wants_veg : {FALSE}]

InitCore ==
    /\ model = None
    /\ rng \in RngStates
    /\ seed = None
    /\ pymc = FALSE
    /\ disk = <<>>
    /\ files = NoFiles
    /\ out = IdleOut
    /\ call \in {c \in CoreCalls : c.op # "predict"}

\* the caller goes on to its next call; predict needs a model to hand over
InvokeCore ==
    /\ out.op # "none"
    /\ call' \in {c \in CoreCalls : c.op = "predict" => model # None}
    /\ out' = IdleOut
    /\ UNCHANGED <<model, rng, seed, pymc, disk, files>>

\* np.random.seed(s)
NpRandomSeed ==
    /\ call.op = "np_random_seed"
    /\ out.op = "none"
    /\ rng' = np_random_seed(call.s)
    /\ seed' = Some(call.s)
    /\ out' = [op |-> "np_random_seed", status |-> "ok"]
    /\ UNCHANGED <<model, pymc, call, disk, files>>

\* model = get_default_model()
GetDefaultModel ==
    /\ call.op = "get_default_model"
    /\ out.op = "none"
    /\ model' = get_default_model
    /\ out' = [op |-> "get_default_model", status |-> "ok", value |-> get_default_model]
    /\ UNCHANGED <<rng, seed, pymc, call, disk, files>>

\* labels = create_proxy_labels(df)
CreateProxyLabels ==
    /\ call.op = "create_proxy_labels"
    /\ out.op = "none"
    /\ LET res == create_proxy_labels(call.df, rng)
       IN  /\ rng' = res.rng
           /\ out' = [op |-> "create_proxy_labels", status |-> res.status,
                      value |-> res.labels]
    /\ UNCHANGED <<model, seed, pymc, call, disk, files>>

\* model = fit_model(df, vibe, user_wants_veg, use_pymc); the result records
\* the priors and the starting point the fitter used
FitModel ==
    /\ call.op = "fit_model"
    /\ out.op = "none"
    /\ \E res \in fit_model_outcomes(call.df, call.vibe, call.user_wants_veg,
                                     call.use_pymc, pymc, rng) :
           /\ rng' = res.rng
           /\ model' = IF res.status = "ok" THEN res.artifacts ELSE model
           /\ out' = [op |-> "fit_model", status |-> res.status, value |-> res.artifacts,
                      y |-> res.y,
                      prior_means |-> prior_means(FEATURE_NAMES),
                      prior_stds |-> prior_stds(FEATURE_NAMES),
                      x0 |-> prior_means(FEATURE_NAMES)]
    /\ UNCHANGED <<seed, pymc, call, disk, files>>

\* features = prepare_features(df, vibe, user_wants_veg): the returned
\* DataFrame's columns, its rows by column name, and its .values
PrepareFeatures ==
    /\ call.op = "prepare_features"
    /\ out.op = "none"
    /\ LET features == prepare_features(call.df, call.vibe, call.user_wants_veg)
       IN  out' = [op |-> "prepare_features", status |-> "ok",
                   columns |-> features_columns,
                   value |-> features,
                   values |-> feature_matrix(features, features_columns)]
    /\ UNCHANGED <<model, rng, seed, pymc, call, disk, files>>

NextCore ==
    \/ InvokeCore
    \/ PrepareFeatures
    \/ NpRandomSeed
    \/ GetDefaultModel
    \/ CreateProxyLabels
    \/ FitModel
    \/ Predict
    \/ Rank

SpecCore == InitCore /\ [][NextCore]_vars

\* C6: predict is deterministic under a fixed seed: a predict call made under
\* seed s returns what every other predict call under seed s with the same
\* model and inputs returns, whatever ran in between; so it returns what the
\* call made right after seeding returns.
C6_SameSeedSameResult ==
    (out.op = "predict" /\ seed # None) =>
        out.value = predict_with_uncertainty(model, call.df, call.vibe, call.user_wants_veg,
                                             call.n_samples, np_random_seed(seed[1]))

DefaultModelBuilt == out.op = "get_default_model"

\* C7: the default model has n_samples = 0, for each of the eight features the
\* prior mean of that feature as coefficient, and a diagonal covariance whose
\* i-th entry is the squared prior std of the i-th feature.
C7_DefaultModelIsPrior ==
    DefaultModelBuilt =>
        /\ model = out.value
        /\ out.value.n_samples = 0
        /\ out.value.feature_names = FEATURE_NAMES
        /\ DOMAIN out.value.coefficients = Range(FEATURE_NAMES)
        /\ \A i \in 1..Len(FEATURE_NAMES) :
              /\ out.value.coefficients[FEATURE_NAMES[i]] = PRIOR_CONFIG[PRIOR_KEYS[i]][1]
              /\ \A j \in 1..Len(FEATURE_NAMES) :
                    out.value.covariance[i][j] =
                        IF i = j
                        THEN PRIOR_CONFIG[PRIOR_KEYS[i]][2] * PRIOR_CONFIG[PRIOR_KEYS[i]][2]
                        ELSE 0

\* a default model was built: distance_norm carries the mean of the table's
\* "distance" entry and the intercept's variance is 2.0 squared
C7_Witness ==
    /\ DefaultModelBuilt
    /\ model.coefficients["distance_norm"] = -15
    /\ model.covariance[1][1] = 400

\* C8: fit gives every coefficient the (mean, std) of its feature in the prior
\* table and starts the optimizer there; the prior mean fit uses for a feature
\* is the coefficient the default model has for it.
C8_FitUsesPriorTable ==
    (out.op = "fit_model" /\ out.status = "ok") =>
        \A i \in 1..Len(FEATURE_NAMES) :
            /\ out.prior_means[i] = PRIOR_CONFIG[PRIOR_KEYS[i]][1]
            /\ out.prior_stds[i] = PRIOR_CONFIG[PRIOR_KEYS[i]][2]
            /\ out.x0[i] = out.prior_means[i]
            /\ out.prior_means[i] = get_default_model.coefficients[FEATURE_NAMES[i]]

\* a table of the caller that has every field of a venue record as a column
\* (cells may be missing) and at least one row
WellFormedFrame(df) == df.rows # <<>> /\ CoreColumns \subseteq df.columns

\* C11: fit, predict and rank are total over well-formed inputs: on a
\* non-empty table with every record field, and for a valid strategy, each
\* call returns a result; no numerical failure reaches the caller.
C11_TotalOnWellFormed ==
    /\ (out.op \in {"fit_model", "predict"} /\ WellFormedFrame(call.df)) =>
           out.status = "ok"
    /\ (out.op = "rank" /\ call.strategy \in {"mean", "lower_bound"}) =>
           out.status = "ok"

\* covariance == covariance.T, cell by cell
IsSymmetric(c) ==
    \A i \in 1..Len(c) : \A j \in 1..Len(c) : FEq(c[i][j], c[j][i])

\* np.min(np.linalg.eigvalsh(c)) of a symmetric matrix, in 1/100: NaN when a
\* cell is NaN, else the smallest Gershgorin bound c[i][i] - sum |c[i][j]|,
\* which is the smallest eigenvalue itself when c is diagonal
min_eig(c) ==
    IF \E i \in 1..Len(c) : HasNaN(c[i]) THEN NaN
    ELSE LET abs(v) == IF v < 0 THEN -v ELSE v
             bound(i) == c[i][i] - SumSeq([j \in 1..Len(c) |->
                                              IF j = i THEN 0 ELSE abs(c[i][j])])
         IN  CHOOSE b \in {bound(i) : i \in 1..Len(c)} :
                 \A i \in 1..Len(c) : b <= bound(i)

\* C12: fit on any non-empty input returns a ModelArtifact whose covariance
\* is symmetric and has no negative eigenvalue.
C12_CovarianceSymmetricPSD ==
    (out.op = "fit_model" /\ call.df.rows # <<>>) =>
        /\ out.status = "ok"
        /\ IsSymmetric(out.value.covariance)
        /\ FLe(0, min_eig(out.value.covariance))

\* C14: feature vectors are produced and consumed in the order intercept,
\* distance_norm, rating_norm, log_reviews, vibe_match, is_veg, is_open,
\* completeness: the vectors prepare_features produces, the feature_names of
\* every artifact fit returns or the caller holds, and with them the matrix
\* predict multiplies with the coefficients.
C14_FeatureOrder ==
    /\ out.op = "prepare_features" =>
           /\ out.columns = FEATURE_NAMES
           /\ \A r \in 1..Len(out.values) : \A i \in 1..Len(FEATURE_NAMES) :
                  out.values[r][i] = out.value[r][FEATURE_NAMES[i]]
    /\ (out.op = "fit_model" /\ out.status = "ok") =>
           out.value.feature_names = FEATURE_NAMES
    /\ model # None => model.feature_names = FEATURE_NAMES
    /\ out.op = "predict" =>
           \A r \in 1..Len(out.value) :
               DOMAIN out.value[r].features = Range(model.feature_names)

\* ------------------------------------------- artifacts kept, saved and loaded

\* the dict ModelArtifacts.save pickles: the trace is not written
pickle_dump(m) ==
    [coefficients |-> m.coefficients,
     covariance |-> m.covariance,
     feature_names |-> m.feature_names,
     n_samples |-> m.n_samples]

\* mutant: load rebuilds the object without the sample count
ModelArtifacts_load_uncounted(data) ==
    [coefficients |-> data.coefficients,
     covariance |-> data.covariance,
     feature_names |-> data.feature_names,
     n_samples |-> 0,
     trace |-> None]

\* ModelArtifacts.load: cls(**data), the trace taking its default
ModelArtifacts_load(data) ==
    [coefficients |-> data.coefficients,
     covariance |-> data.covariance,
     feature_names |-> data.feature_names,
     n_samples |-> data.n_samples,
     trace |-> None]

StoreFrames == {DataFrame(CoreColumns, <<RowA>>), DataFrame(CoreColumns, <<RowA, RowB>>)}

StoreCalls ==
    [op : {"get_default_model", "save", "load"}]
    \cup [op : {"fit_model"}, df : StoreFrames, vibe : {"work"},
          user_wants_veg : {FALSE}, use_pymc : BOOLEAN]
    \cup [op : {"predict"}, df : StoreFrames, vibe : {"work"},
          user_wants_veg : {FALSE}, n_samples : {1}]
    \cup [op : {"rank"}, predictions : CorePredictions, strategy : RankStrategies]

\* a process that has imported bayes_ranker, with or without PyMC installed
InitStore ==
    /\ model = None
    /\ rng = 0
    /\ seed = None
    /\ pymc \in BOOLEAN
    /\ disk = <<>>
    /\ files = NoFiles
    /\ out = IdleOut
    /\ call \in {c \in StoreCalls : c.op \notin {"predict", "save"}}

\* the caller goes on to its next call; predict and save need an artifact
InvokeStore ==
    /\ out.op # "none"
    /\ call' \in {c \in StoreCalls : c.op \in {"predict", "save"} => model # None}
    /\ out' = IdleOut
    /\ UNCHANGED <<model, rng, seed, pymc, disk, files>>

\* model.save(path)
Save ==
    /\ call.op = "save"
    /\ out.op = "none"
    /\ model # None
    /\ disk' = pickle_dump(model)
    /\ out' = [op |-> "save", status |-> "ok"]
    /\ UNCHANGED <<model, rng, seed, pymc, call, files>>

\* loaded = ModelArtifacts.load(path); open() raises when nothing was saved
Load ==
    /\ call.op = "load"
    /\ out.op = "none"
    /\ out' = IF disk = <<>>
              THEN [op |-> "load", status |-> "FileNotFoundError"]
              ELSE [op |-> "load", status |-> "ok", value |-> ModelArtifacts_load(disk)]
    /\ UNCHANGED <<model, rng, seed, pymc, call, disk, files>>

NextStore ==
    \/ InvokeStore
    \/ GetDefaultModel
    \/ FitModel
    \/ Predict
    \/ Rank
    \/ Save
    \/ Load

SpecStore == InitStore /\ [][NextStore]_vars

\* the shape a ModelArtifacts must have
ArtifactShapeOk(m) ==
    /\ Cardinality(DOMAIN m.coefficients) = Len(m.feature_names)
    /\ Len(m.covariance) = Len(m.feature_names)
    /\ \A i \in 1..Len(m.covariance) : Len(m.covariance[i]) = Len(m.feature_names)
    /\ DOMAIN m.coefficients = Range(m.feature_names)

\* C13: every ModelArtifacts produced by get_default_model, by fit_model with
\* either strategy or by load has as many coefficients, covariance rows and
\* covariance columns as feature names, and its coefficient keys are its
\* feature names.
C13_ArtifactShape ==
    /\ model # None => ArtifactShapeOk(model)
    /\ (out.op \in {"get_default_model", "fit_model", "load"} /\ out.status = "ok") =>
           ArtifactShapeOk(out.value)

\* an artifact fitted on two records was loaded back while the artifact at
\* hand is one fitted with PyMC
C13_Witness ==
    /\ out.op = "load"
    /\ out.status = "ok"
    /\ out.value.n_samples = 2
    /\ model # None
    /\ model.trace # None

\* C15: a ModelArtifacts is immutable once created: predict, rank, save and
\* load leave the artifact at hand as it is, the artifact changes only by
\* being replaced with the artifact a fit or the default constructor has just
\* created, and a saved artifact changes only by another save.
C15_ArtifactImmutable ==
    [][/\ call.op \in {"predict", "rank", "save", "load"} => model' = model
       /\ model' # model =>
              /\ call.op \in {"fit_model", "get_default_model"}
              /\ out'.op = call.op
              /\ out'.status = "ok"
              /\ model' = out'.value
       /\ disk' # disk => call.op = "save"]_vars

\* predict ran on an artifact fitted on two records while the file still
\* holds the default artifact saved before the fit
C15_Witness ==
    /\ out.op = "predict"
    /\ model.n_samples = 2
    /\ disk # <<>>
    /\ disk.n_samples = 0
    /\ disk.coefficients = get_default_model.coefficients

C27_StrategyByConfiguration ==
    (out.op = "fit_model" /\ out.status = "ok") =>
        (out.value.trace # None <=> call.use_pymc)

\* ------------------------------------------ proxy labels as a pure function

\* records to label: rating missing, just below and exactly at 4.2; review
\* count missing, just below and exactly at 100
LabelRows ==
    {[id |-> Some(StrId("1")), rating |-> r, review_count |-> n, ratingCount |-> n] :
        r \in {None, Some(41), Some(42)}, n \in {None, Some(99), Some(100)}}

\* every schema: with or without the rating column, with review_count,
\* ratingCount, both or neither
LabelFrames ==
    {DataFrame({"id"} \cup rating \cup reviews, rows) :
        rating \in {{}, {"rating"}},
        reviews \in SUBSET {"review_count", "ratingCount"},
        rows \in SeqsUpTo(LabelRows, MaxRows)}

InitLabels ==
    /\ model = None
    /\ rng \in RngStates
    /\ seed = None
    /\ pymc = FALSE
    /\ disk = <<>>
    /\ files = NoFiles
    /\ out = IdleOut
    /\ call \in [op : {"create_proxy_labels"}, df : LabelFrames]

NextLabels == CreateProxyLabels

SpecLabels == InitLabels /\ [][NextLabels]_vars

\* the review count of the row at position i: the review_count column if the
\* table has one, else ratingCount
review_count_of(df, i) ==
    IF "review_count" \in df.columns THEN df.rows[i]["review_count"]
    ELSE df.rows[i]["ratingCount"]

HasReviewColumn(df) == {"review_count", "ratingCount"} \cap df.columns # {}

\* C18: for every record of a table with a rating and a review-count column
\* the proxy label is 1 iff rating >= 4.2 and review count >= 100, a missing
\* rating or review count counted as 0; the labelling draws no random number.
C18_ProxyLabelRule ==
    [][(/\ call.op = "create_proxy_labels"
        /\ out.op = "none"
        /\ "rating" \in call.df.columns
        /\ HasReviewColumn(call.df)) =>
           /\ out'.status = "ok"
           /\ Len(out'.value) = Len(call.df.rows)
           /\ \A i \in 1..Len(call.df.rows) :
                  out'.value[i] =
                      IF /\ fillna(call.df.rows[i]["rating"], 0) >= 42
                         /\ fillna(review_count_of(call.df, i), 0) >= 100
                      THEN 1 ELSE 0
           /\ rng' = rng]_vars

\* a record exactly at both thresholds was labelled 1 and a record with no
\* review count 0
C18_Witness ==
    /\ out.op = "create_proxy_labels"
    /\ out.status = "ok"
    /\ "rating" \in call.df.columns
    /\ Len(call.df.rows) = 2
    /\ call.df.rows[1]["rating"] = Some(42)
    /\ review_count_of(call.df, 1) = Some(100)
    /\ review_count_of(call.df, 2) = None
    /\ out.value = <<1, 0>>

\* C19: proxy labelling never fails on an incomplete schema: for every
\* combination of present and absent rating and review-count columns it
\* returns one binary label per record.
C19_ProxyLabelsTotal ==
    out.op = "create_proxy_labels" =>
        /\ out.status = "ok"
        /\ Len(out.value) = Len(call.df.rows)
        /\ \A i \in 1..Len(out.value) : out.value[i] \in {0, 1}

\* ------------------------------------------- features as a pure function

FeatureFlags == {None, Some(0), Some(1)}

\* one-record tables over the flag columns: every value of the open-now flag,
\* the veg-friendly flag and two of the completeness flags, missing included
FeatureRows ==
    {[id |-> Some(StrId("1")), openNow |-> o, vegFriendly |-> v,
      hasAddress |-> a, hasPhone |-> h] :
        o \in FeatureFlags, v \in FeatureFlags, a \in FeatureFlags, h \in FeatureFlags}

\* every schema over those columns
FeatureFrames ==
    {DataFrame({"id"} \cup cols, <<r>>) :
        cols \in SUBSET {"openNow", "vegFriendly", "hasAddress", "hasPhone"},
        r \in FeatureRows}

InitFeatures ==
    /\ model = None
    /\ rng = 0
    /\ seed = None
    /\ pymc = FALSE
    /\ disk = <<>>
    /\ files = NoFiles
    /\ out = IdleOut
    /\ call \in [op : {"prepare_features"}, df : FeatureFrames, vibe : {"work"},
                 user_wants_veg : BOOLEAN]

NextFeatures == PrepareFeatures

SpecFeatures == InitFeatures /\ [][NextFeatures]_vars

\* the cell of column c on the record at position i, None when the table has
\* no such column
cell_of(df, i, c) == IF c \in df.columns THEN df.rows[i][c] ELSE None

\* C21: the open-now feature is 1.0 for a record flagged open, 0.0 for one
\* flagged closed and 0.5 for one whose flag is missing, so unknown never
\* gets the value of closed.
C21_OpenNowFeature ==
    out.op = "prepare_features" =>
        \A i \in 1..Len(call.df.rows) :
            LET flag == cell_of(call.df, i, "openNow")
                f == out.value[i].is_open
            IN  /\ flag = Some(1) => f = 100
                /\ flag = Some(0) => f = 0
                /\ flag = None => f = 50

\* C22: the vegetarian feature is 1.0 for veg-friendly and 0.0 for not
\* veg-friendly or a missing flag when the user wants vegetarian venues, and
\* 0.3 times that value, never an undefined one, when the user does not.
C22_VegFeature ==
    out.op = "prepare_features" =>
        \A i \in 1..Len(call.df.rows) :
            LET flag == cell_of(call.df, i, "vegFriendly")
                base == IF flag = Some(1) THEN 100 ELSE 0
                f == out.value[i].is_veg
            IN  /\ ~IsNaN(f)
                /\ f = IF call.user_wants_veg THEN base ELSE (3 * base) \div 10

\* C23: completeness is the mean over those of the flags has-address,
\* has-phone, has-website, has-hours that are present on the record, and 0.5
\* when none of them is.
C23_Completeness ==
    out.op = "prepare_features" =>
        \A i \in 1..Len(call.df.rows) :
            LET present == SelectSeq(completeness_cols,
                                     LAMBDA c : cell_of(call.df, i, c) # None)
                f == out.value[i].completeness
            IN  /\ 0 <= f /\ f <= 100
                /\ f = IF present = <<>> THEN 50
                       ELSE SumSeq([k \in 1..Len(present) |->
                                       100 * cell_of(call.df, i, present[k])[1]])
                                \div Len(present)

\* --------------------------------------------------------------- api_server

\* `a or b` on an optional number or flag: b when a is None, 0 or False
py_or(a, b) == IF IsNone(a) \/ a[1] = 0 THEN b ELSE a[1]

\* VenueInput values of a request: the first place of the API test with all
\* its flags set, and a place that names itself and nothing else
VenueGreatCafe ==
    [id |-> "1", name |-> "Great Cafe", category |-> "cafe",
     distance_meters |-> Some(500), rating |-> Some(85), review_count |-> Some(200),
     open_now |-> Some(1), veg_friendly |-> Some(1), has_address |-> Some(1),
     has_phone |-> Some(1), has_website |-> None, has_hours |-> None]

VenueBare ==
    [id |-> "9", name |-> "Kiosk", category |-> "restaurant",
     distance_meters |-> None, rating |-> None, review_count |-> None,
     open_now |-> None, veg_friendly |-> None, has_address |-> None,
     has_phone |-> None, has_website |-> None, has_hours |-> None]

\* a place at the query point itself and a place beyond the 3 km cap
VenueAtDoor ==
    [VenueBare EXCEPT !.id = "0", !.name = "Lobby Bar", !.distance_meters = Some(0)]

VenueFar ==
    [VenueBare EXCEPT !.id = "4", !.name = "Far Diner", !.distance_meters = Some(3500)]

ApiVenues == {VenueGreatCafe, VenueBare}

\* the place lists of rank requests
RankPlaces ==
    {<<>>, <<VenueGreatCafe>>, <<VenueBare>>, <<VenueAtDoor>>, <<VenueFar>>,
     <<VenueBare, VenueGreatCafe>>}

\* the row dict the endpoints build for one place
places_row(p) ==
    [id |-> Some(StrId(p.id)), name |-> Some(p.name), category |-> Some(p.category),
     distance_meters |-> Some(py_or(p.distance_meters, 1000)),
     rating |-> p.rating,
     review_count |-> Some(py_or(p.review_count, 0)),
     openNow |-> p.open_now,
     vegFriendly |-> Some(py_or(p.veg_friendly, 0)),
     hasAddress |-> Some(py_or(p.has_address, 0)),
     hasPhone |-> Some(py_or(p.has_phone, 0)),
     hasWebsite |-> Some(py_or(p.has_website, 0)),
     hasHours |-> Some(py_or(p.has_hours, 0))]

\* df = pd.DataFrame(places_data)
places_frame(places) ==
    DataFrame(CoreColumns, [i \in 1..Len(places) |-> places_row(places[i])])

\* df['_label'] = labels
with_label_column(df, labels) ==
    [columns |-> df.columns \cup {"_label"},
     rows |-> [i \in 1..Len(df.rows) |->
                  [c \in df.columns \cup {"_label"} |->
                      IF c = "_label" THEN Some(labels[i]) ELSE df.rows[i][c]]]]

\* `if request.labels:` is false for None and for the empty list
labels_truthy(labels) == ~IsNone(labels) /\ labels[1] # <<>>

\* fit_model_endpoint(request) with the global generator in `state`: the HTTP
\* status, the model assigned to _model (None when none is), the labels the
\* fitter ran on, and the generator afterwards
fit_model_endpoint(request, PYMC_AVAILABLE, state) ==
    IF request.places = <<>>
    THEN [status |-> 400, detail |-> "No places provided", rng |-> state]
    ELSE IF labels_truthy(request.labels) /\ Len(request.labels[1]) # Len(request.places)
    THEN [status |-> 400, detail |-> "Labels length != places length", rng |-> state]
    ELSE LET df0 == places_frame(request.places)
             df == IF labels_truthy(request.labels)
                   THEN with_label_column(df0, request.labels[1])
                   ELSE df0
             res == fit_model(df, request.vibe, request.veg_only, FALSE,
                              PYMC_AVAILABLE, state)
         IN  IF res.status = "ok"
             THEN [status |-> 200, value |-> res.artifacts, y |-> np_array(res.y),
                   n_samples |-> res.artifacts.n_samples, rng |-> res.rng]
             ELSE [status |-> 500, detail |-> res.status, rng |-> res.rng]

\* the RankedVenue built for the prediction at 0-based position i of the
\* ranked list; round(x, 4) keeps a value held in 1/10000
RankedVenue(request, pred, i) ==
    LET matches == SelectSeq(request.places, LAMBDA p : StrId(p.id) = pred.venue_id)
        orig == IF matches = <<>> THEN None ELSE Some(Head(matches))
    IN  [id |-> pred.venue_id,
         name |-> IF orig # None THEN orig[1].name ELSE "Venue",
         category |-> IF orig # None THEN orig[1].category ELSE "unknown",
         probability |-> pred.probability,
         p10 |-> pred.p10,
         p90 |-> pred.p90,
         confidence |-> pred.confidence,
         rank |-> i + 1,
         distance_meters |-> IF orig # None THEN orig[1].distance_meters ELSE None,
         rating |-> IF orig # None THEN orig[1].rating ELSE None,
         review_count |-> IF orig # None THEN orig[1].review_count ELSE None,
         open_now |-> IF orig # None THEN orig[1].open_now ELSE None,
         veg_friendly |-> IF orig # None THEN orig[1].veg_friendly ELSE None]

\* model_info of a rank response, read from the model m
model_info_of(m, strategy) ==
    [n_training_samples |-> m.n_samples,
     coefficients |-> m.coefficients,
     strategy |-> strategy]

\* mutant: the handler reads _model anew for model_info after a fit may have
\* replaced it: the sample count comes from another model than the predictions
rank_venues_endpoint_torn(request, m0, state) ==
    LET m == IF m0 = None THEN get_default_model ELSE m0
    IN  IF request.places = <<>>
        THEN [status |-> 400, detail |-> "No places provided", model |-> m, rng |-> state]
        ELSE LET df == places_frame(request.places)
                 predictions == predict_with_uncertainty(m, df, request.vibe,
                                                         request.veg_only,
                                                         DEFAULT_N_SAMPLES, state)
                 ranked == rank(predictions, request.strategy).value
             IN  [status |-> 200,
                  predictions |-> predictions,
                  ranked_places |-> np_array([i \in 1..Len(ranked) |->
                                                 RankedVenue(request, ranked[i], i - 1)]),
                  model_info |-> model_info_of([m EXCEPT !.n_samples = @ + 1],
                                               request.strategy),
                  debug |-> [n_input |-> Len(request.places), n_output |-> Len(ranked)],
                  model |-> m,
                  rng |-> rng_after_predict(m, DEFAULT_N_SAMPLES, state)]

\* rank_venues(request) of api_server with _model = m0 and the global
\* generator in `state`: the HTTP status, the response, the predictions it
\* was built from, _model and the generator afterwards
rank_venues_endpoint(request, m0, state) ==
    LET m == IF m0 = None THEN get_default_model ELSE m0
    IN  IF request.places = <<>>
        THEN [status |-> 400, detail |-> "No places provided", model |-> m, rng |-> state]
        ELSE LET df == places_frame(request.places)
                 predictions == predict_with_uncertainty(m, df, request.vibe,
                                                         request.veg_only,
                                                         DEFAULT_N_SAMPLES, state)
                 ranked == rank(predictions, request.strategy).value
             IN  [status |-> 200,
                  predictions |-> predictions,
                  ranked_places |-> np_array([i \in 1..Len(ranked) |->
                                                 RankedVenue(request, ranked[i], i - 1)]),
                  model_info |-> model_info_of(m, request.strategy),
                  debug |-> [n_input |-> Len(request.places), n_output |-> Len(ranked)],
                  model |-> m,
                  rng |-> rng_after_predict(m, DEFAULT_N_SAMPLES, state)]

FitLabels == {None} \cup {Some(l) : l \in SeqsUpTo({0, 1}, MaxRows)}

ServerCalls ==
    [op : {"lifespan", "health"}]
    \cup [op : {"fit"}, places : SeqsUpTo(ApiVenues, MaxRows), labels : FitLabels,
          vibe : {"work"}, veg_only : BOOLEAN]

\* the module as imported: _model is None until the lifespan hook or a
\* handler assigns it
InitServer ==
    /\ model = None
    /\ rng = 0
    /\ seed = None
    /\ pymc = FALSE
    /\ disk = <<>>
    /\ files = NoFiles
    /\ out = IdleOut
    /\ call \in ServerCalls

\* the next request arrives; the startup hook runs at most first
InvokeServer ==
    /\ out.op # "none"
    /\ call' \in {c \in ServerCalls : c.op # "lifespan"}
    /\ out' = IdleOut
    /\ UNCHANGED <<model, rng, seed, pymc, disk, files>>

\* lifespan(app): _model = get_default_model()
Lifespan ==
    /\ call.op = "lifespan"
    /\ out.op = "none"
    /\ model' = get_default_model
    /\ out' = [op |-> "lifespan", status |-> "ok"]
    /\ UNCHANGED <<rng, seed, pymc, call, disk, files>>

\* GET /health
HealthCheck ==
    /\ call.op = "health"
    /\ out.op = "none"
    /\ out' = [op |-> "health", status |-> 200,
               model_loaded |-> model # None,
               model_n_samples |-> IF model # None THEN model.n_samples ELSE 0,
               pymc_available |-> pymc]
    /\ UNCHANGED <<model, rng, seed, pymc, call, disk, files>>

\* POST /fit that drops the active model before it validates the request
FitModelEndpoint_resetting ==
    /\ call.op = "fit"
    /\ out.op = "none"
    /\ \E res \in {fit_model_endpoint(call, pymc, rng)} :
          /\ model' = IF res.status = 200 THEN res.value ELSE None
          /\ rng' = res.rng
          /\ out' = [op |-> "fit"] @@ [f \in DOMAIN res \ {"rng"} |-> res[f]]
    /\ UNCHANGED <<seed, pymc, call, disk, files>>

\* POST /fit
FitModelEndpoint ==
    /\ call.op = "fit"
    /\ out.op = "none"
    /\ \E res \in {fit_model_endpoint(call, pymc, rng)} :
          /\ model' = IF res.status = 200 THEN res.value ELSE model
          /\ rng' = res.rng
          /\ out' = [op |-> "fit"] @@ [f \in DOMAIN res \ {"rng"} |-> res[f]]
    /\ UNCHANGED <<seed, pymc, call, disk, files>>

\* the requests of a client that ranks and now and then re-fits, some of its
\* fit requests being empty or carrying one label for two places
ApiCalls ==
    [op : {"lifespan", "health"}]
    \cup [op : {"fit"},
          places : {<<>>, <<VenueGreatCafe>>, <<VenueBare, VenueGreatCafe>>},
          labels : {None, Some(<<1>>)}, vibe : {"work"}, veg_only : {FALSE}]
    \cup [op : {"rank"}, places : RankPlaces, vibe : {"work"}, veg_only : {FALSE},
          strategy : {"mean", "lower_bound"}]

InitApi ==
    /\ model = None
    /\ rng = 0
    /\ seed = None
    /\ pymc = FALSE
    /\ disk = <<>>
    /\ files = NoFiles
    /\ out = IdleOut
    /\ call \in ApiCalls

\* the event loop takes up the next request: the handlers are coroutines
\* without an await, so each runs to its end before another starts
InvokeApi ==
    /\ out.op # "none"
    /\ call' \in {c \in ApiCalls : c.op # "lifespan"}
    /\ out' = IdleOut
    /\ UNCHANGED <<model, rng, seed, pymc, disk, files>>

\* POST /rank
RankVenuesEndpoint ==
    /\ call.op = "rank"
    /\ out.op = "none"
    /\ \E res \in {rank_venues_endpoint(call, model, rng)} :
          /\ model' = res.model
          /\ rng' = res.rng
          /\ out' = [op |-> "rank"] @@ [f \in DOMAIN res \ {"rng", "model"} |-> res[f]]
    /\ UNCHANGED <<seed, pymc, call, disk, files>>

NextApi ==
    \/ InvokeApi
    \/ Lifespan
    \/ HealthCheck
    \/ FitModelEndpoint
    \/ RankVenuesEndpoint

SpecApi == InitApi /\ [][NextApi]_vars

\* C16: under every order in which fit and rank requests reach the shared
\* _model, a rank request computes all its predictions and reports its model
\* info from one single model: the one that is _model when the handler has
\* made sure there is one, and that is still _model when it answers.
C16_RankReadsOneModel ==
    [][(/\ call.op = "rank"
        /\ out.op = "none"
        /\ out'.op = "rank"
        /\ out'.status = 200) =>
           \E m \in {model, get_default_model} :
               /\ model # None => m = model
               /\ model' = m
               /\ out'.predictions =
                      predict_with_uncertainty(m, places_frame(call.places), call.vibe,
                                               call.veg_only, DEFAULT_N_SAMPLES, rng)
               /\ out'.model_info.coefficients = m.coefficients
               /\ out'.model_info.n_training_samples = m.n_samples
               /\ \A i \in 1..Len(out'.ranked_places) :
                      \E j \in 1..Len(out'.predictions) :
                          /\ out'.ranked_places[i].id = out'.predictions[j].venue_id
                          /\ out'.ranked_places[i].probability =
                                 out'.predictions[j].probability]_vars

\* a rank request answered from a model that a fit on two places had put in
\* the place of the default model
C16_Witness ==
    /\ out.op = "rank"
    /\ out.status = 200
    /\ Len(out.ranked_places) = 2
    /\ model.n_samples = 2
    /\ out.model_info.n_training_samples = 2
    /\ out.model_info.coefficients = model.coefficients

\* C20: the distance_norm of a place is clip(distance_meters / 3000, 0, 1):
\* 1.0 from 3000 m on, 0.0 at 0 m and below, within [0, 1], and 0.5 for a
\* place with no distance.
C20_DistanceNorm ==
    (out.op = "rank" /\ out.status = 200) =>
        \A i \in 1..Len(call.places) :
            LET d == call.places[i].distance_meters
                f == out.predictions[i].features["distance_norm"]
            IN  /\ FLe(0, f) /\ FLe(f, 100)
                /\ d = None => f = 50
                /\ d # None =>
                       f = IF d[1] >= 3000 THEN 100
                           ELSE IF d[1] <= 0 THEN 0
                           ELSE (100 * d[1]) \div 3000

\* a step of the fit handler, and whether it answered 200
FitStep == call.op = "fit" /\ out.op = "none" /\ out'.op = "fit"

\* C28: the active model's n_samples is the number of records of the latest
\* successful fit, and 0 exactly when no fit has succeeded, the active model
\* then being the prior-only default; the health endpoint reports this value.
\* Step by step: a successful fit sets n_samples to its number of places,
\* which is not 0; no other step changes the model, except that startup and
\* the first rank install the default; a model has n_samples 0 exactly when
\* it is the default; health answers with the active model's n_samples.
C28_NSamplesTracksFit ==
    [][/\ (FitStep /\ out'.status = 200) =>
              /\ model' # None
              /\ model'.n_samples = Len(call.places)
              /\ model'.n_samples # 0
       /\ (FitStep /\ out'.status # 200) => model' = model
       /\ ~FitStep =>
              IF model = None THEN model' \in {None, get_default_model}
              ELSE model' = model
       /\ model' # None => (model'.n_samples = 0 <=> model' = get_default_model)
       /\ (call.op = "health" /\ out.op = "none" /\ out'.op = "health") =>
              /\ out'.model_n_samples = IF model = None THEN 0 ELSE model.n_samples
              /\ out'.model_loaded = (model # None)]_vars

\* health reports the two records of the last fit
C28_Witness ==
    /\ out.op = "health"
    /\ model # None
    /\ model.n_samples = 2
    /\ out.model_n_samples = 2

NextServer ==
    \/ InvokeServer
    \/ Lifespan
    \/ HealthCheck
    \/ FitModelEndpoint

SpecServer == InitServer /\ [][NextServer]_vars

FitAnswered == out.op = "fit"

\* C9: fit answers with an input error and produces no model whenever the
\* places are empty or labels are provided whose length differs from the
\* number of places, a provided empty label list included.
C9_FitRejectsBadInput ==
    (/\ FitAnswered
     /\ \/ call.places = <<>>
        \/ /\ call.labels # None
           /\ Len(call.labels[1]) # Len(call.places)) =>
        /\ out.status = 400
        /\ "value" \notin DOMAIN out

\* C10: when a fit request provides labels of the right length, the model is
\* fitted on exactly those labels.
C10_FitUsesProvidedLabels ==
    (/\ FitAnswered
     /\ out.status = 200
     /\ call.labels # None
     /\ Len(call.labels[1]) = Len(call.places)) =>
        /\ out.y = call.labels[1]
        /\ model = _fit_with_laplace(
                       feature_matrix(prepare_features(places_frame(call.places), call.vibe,
                                                       call.veg_only),
                                      FEATURE_NAMES),
                       call.labels[1], FEATURE_NAMES)

\* ------------------------------------------------------------ ranking_logic
\* Distances are metres, the distance score is in sixtieths of a point
\* (50 - (km / 3) * 50 = (3000 - m) / 60). A name or a tag value is the set of
\* the lower-case keywords that occur in it, so `kw in text` is kw \in text.

MaxPlaces == 3    \* most places handed to rank_places

OSM_KEYS ==
    {"amenity", "leisure", "cuisine", "diet:vegetarian", "diet:vegan", "opening_hours",
     "website", "contact:website", "phone", "contact:phone"}

\* a tags dict: the keys of t with their values, every other key absent
Tags(t) == [k \in OSM_KEYS |-> IF k \in DOMAIN t THEN t[k] ELSE {}]

VIBE_KEYWORDS ==
    [food |-> [calm |-> {"cafe", "tea", "coffee", "bakery", "quiet", "fine_dining"},
               lively |-> {"fast_food", "bar", "pub", "nightclub", "food_court"}],
     scenic |-> [calm |-> {"park", "garden", "viewpoint", "nature", "temple", "church"},
                 lively |-> {"beach", "amusement", "zoo", "theme_park", "attraction"}],
     indoor |-> [calm |-> {"museum", "library", "gallery", "art"},
                 lively |-> {"cinema", "theatre", "mall", "arcade"}]]

VEG_NAME_KEYWORDS ==
    {"veg", "vegetarian", "vegan", "saravana", "murugan", "ananda", "pure veg", "bhavan"}

\* round(num / den) of Python 3 for num >= 0: to the nearest integer, a tie to
\* the even one
round(num, den) ==
    LET q == num \div den
        r == num % den
    IN  IF 2 * r < den THEN q
        ELSE IF 2 * r > den THEN q + 1
        ELSE IF q % 2 = 0 THEN q ELSE q + 1

\* haversine_km(center_lat, center_lon, place.lat, place.lon), in metres: a
\* place is kept with its great-circle distance to the search centre
haversine_km(place) == place.distance_m

\* estimate_walk_mins(distance_km): round((distance_km / 4.5) * 60)
estimate_walk_mins(distance_m) == round(60 * distance_m, 4500)

is_veg_friendly(tags, name) ==
    \/ tags["diet:vegetarian"] \in {{"yes"}, {"only"}}
    \/ tags["diet:vegan"] \in {{"yes"}, {"only"}}
    \/ tags["cuisine"] \cap {"vegetarian", "vegan", "south_indian"} # {}
    \/ name \cap VEG_NAME_KEYWORDS # {}

\* get_vibe_match(tags, name, category, vibe)[0]
get_vibe_match(tags, name, category, vibe) ==
    LET keywords == IF category \in DOMAIN VIBE_KEYWORDS
                       /\ vibe \in DOMAIN VIBE_KEYWORDS[category]
                    THEN VIBE_KEYWORDS[category][vibe] ELSE {}
        tag_values == UNION {tags[k] : k \in OSM_KEYS}
    IN  \/ keywords \cap (tag_values \cup name) # {}
        \/ IF vibe = "calm"
           THEN tags["leisure"] \in {{"park"}, {"garden"}} \/ tags["amenity"] = {"cafe"}
           ELSE tags["amenity"] \in {{"fast_food"}, {"cinema"}}

get_open_status(tags) ==
    IF {"24/7", "24 hours"} \cap tags["opening_hours"] # {} THEN "open" ELSE "unknown"

\* score_place without the cap at 100
score_place_uncapped(place, prefs) ==
    LET tags == place.tags
        distance_m == haversine_km(place)
        distance_score == Max(0, 3000 - distance_m)
        vibe_score == IF get_vibe_match(tags, place.name, place.category, prefs.vibe)
                      THEN 10 ELSE 0
        veg_friendly == is_veg_friendly(tags, place.name)
        veg_score == IF veg_friendly THEN (IF prefs.veg_only THEN 10 ELSE 5) ELSE 0
        completeness_score ==
            (IF tags["opening_hours"] # {} THEN 4 ELSE 0)
            + (IF tags["website"] # {} \/ tags["contact:website"] # {} THEN 3 ELSE 0)
            + (IF tags["phone"] # {} \/ tags["contact:phone"] # {} THEN 3 ELSE 0)
        open_status == get_open_status(tags)
        open_bonus == IF open_status = "open" THEN 5 ELSE 0
    IN  [total_score |->
             round(distance_score
                       + 60 * (20 + vibe_score + veg_score + completeness_score + open_bonus),
                   60),
         metrics |-> [walk_mins |-> estimate_walk_mins(distance_m),
                      distance_score |-> distance_score, category_score |-> 20,
                      vibe_score |-> vibe_score, veg_score |-> veg_score,
                      completeness_score |-> completeness_score,
                      open_bonus |-> open_bonus, veg_friendly |-> veg_friendly,
                      open_status |-> open_status]]

\* score_place(place, center_lat, center_lon, prefs): the total score and the
\* metrics (the distance score unrounded)
score_place(place, prefs) ==
    LET tags == place.tags
        distance_m == haversine_km(place)
        distance_score == Max(0, 3000 - distance_m)
        vibe_score == IF get_vibe_match(tags, place.name, place.category, prefs.vibe)
                      THEN 10 ELSE 0
        veg_friendly == is_veg_friendly(tags, place.name)
        veg_score == IF veg_friendly THEN (IF prefs.veg_only THEN 10 ELSE 5) ELSE 0
        completeness_score ==
            (IF tags["opening_hours"] # {} THEN 4 ELSE 0)
            + (IF tags["website"] # {} \/ tags["contact:website"] # {} THEN 3 ELSE 0)
            + (IF tags["phone"] # {} \/ tags["contact:phone"] # {} THEN 3 ELSE 0)
        open_status == get_open_status(tags)
        open_bonus == IF open_status = "open" THEN 5 ELSE 0
    IN  [total_score |->
             Min(100,
                 round(distance_score
                           + 60 * (20 + vibe_score + veg_score + completeness_score
                                   + open_bonus),
                       60)),
         metrics |-> [walk_mins |-> estimate_walk_mins(distance_m),
                      distance_score |-> distance_score, category_score |-> 20,
                      vibe_score |-> vibe_score, veg_score |-> veg_score,
                      completeness_score |-> completeness_score,
                      open_bonus |-> open_bonus, veg_friendly |-> veg_friendly,
                      open_status |-> open_status]]

\* the filters of rank_places: category, walk time, veg-only
passes_filters(place, prefs) ==
    /\ place.category = prefs.category
    /\ estimate_walk_mins(haversine_km(place)) <= prefs.max_walk_mins
    /\ prefs.veg_only => is_veg_friendly(place.tags, place.name)

\* the RankedPlace rank_places appends for a place
RankedPlace(place, prefs) ==
    LET res == score_place(place, prefs)
    IN  [place |-> place, score |-> res.total_score,
         walk_mins |-> estimate_walk_mins(haversine_km(place)), metrics |-> res.metrics]

\* ranked.sort(key=lambda r: r.score, reverse=True): stable, equal scores keep
\* their order
RECURSIVE InsertByScore(_, _)
InsertByScore(sorted, x) ==
    IF sorted = <<>> THEN <<x>>
    ELSE IF Head(sorted).score >= x.score
         THEN <<Head(sorted)>> \o InsertByScore(Tail(sorted), x)
         ELSE <<x>> \o sorted

RECURSIVE sort_by_score(_)
sort_by_score(ranked) ==
    IF ranked = <<>> THEN <<>>
    ELSE InsertByScore(sort_by_score(SubSeq(ranked, 1, Len(ranked) - 1)),
                       ranked[Len(ranked)])

\* rank_places that cuts the list to two before it sorts
rank_places_cut_first(places, prefs) ==
    LET kept == SelectSeq(places, LAMBDA p : passes_filters(p, prefs))
        ranked == np_array([i \in 1..Len(kept) |-> RankedPlace(kept[i], prefs)])
    IN  sort_by_score(SubSeq(ranked, 1, Min(2, Len(ranked))))

\* rank_places(places, center_lat, center_lon, prefs)
rank_places(places, prefs) ==
    LET kept == SelectSeq(places, LAMBDA p : passes_filters(p, prefs))
        ranked == np_array([i \in 1..Len(kept) |-> RankedPlace(kept[i], prefs)])
        sorted == sort_by_score(ranked)
    IN  SubSeq(sorted, 1, Min(2, Len(sorted)))

\* places around the search centre: everything a place can score at distance
\* 0; a plain place whose distance score is 24.5; a veg place behind it; a
\* fast-food place 44 minutes away; one beyond 3 km; a park
SAMPLE_PLACES ==
    {[id |-> "food-1", name |-> {"saravana", "bhavan"}, distance_m |-> 0,
      category |-> "food",
      tags |-> Tags([amenity |-> {"cafe"}, cuisine |-> {"south_indian", "vegetarian"},
                     opening_hours |-> {"24/7"}, website |-> {"url"}, phone |-> {"number"}])],
     [id |-> "food-2", name |-> {}, distance_m |-> 1530, category |-> "food",
      tags |-> Tags([amenity |-> {"restaurant"}])],
     [id |-> "food-3", name |-> {"ananda", "bhavan"}, distance_m |-> 1800,
      category |-> "food",
      tags |-> Tags([amenity |-> {"restaurant"}, phone |-> {"number"}])],
     [id |-> "food-4", name |-> {}, distance_m |-> 3300, category |-> "food",
      tags |-> Tags([amenity |-> {"fast_food"}, opening_hours |-> {"hours"}])],
     [id |-> "food-5", name |-> {"tea"}, distance_m |-> 3600, category |-> "food",
      tags |-> Tags([amenity |-> {"cafe"}])],
     [id |-> "scenic-1", name |-> {"park"}, distance_m |-> 600, category |-> "scenic",
      tags |-> Tags([leisure |-> {"park"}])]}

PreferencesSet ==
    [category : {"food", "scenic"}, vibe : {"calm", "lively"}, max_walk_mins : {30, 45},
     veg_only : BOOLEAN]

PlacesCalls ==
    [op : {"score_place"}, place : SAMPLE_PLACES, prefs : PreferencesSet]
    \cup [op : {"rank_places"}, places : SeqsUpTo(SAMPLE_PLACES, MaxPlaces),
          prefs : PreferencesSet]

InitPlaces ==
    /\ model = None
    /\ rng = 0
    /\ seed = None
    /\ pymc = FALSE
    /\ disk = <<>>
    /\ files = NoFiles
    /\ out = IdleOut
    /\ call \in PlacesCalls

\* score, reasons, metrics = score_place(place, center_lat, center_lon, prefs)
ScorePlace ==
    /\ call.op = "score_place"
    /\ out.op = "none"
    /\ out' = [op |-> "score_place", status |-> "ok",
               value |-> score_place(call.place, call.prefs)]
    /\ UNCHANGED <<model, rng, seed, pymc, call, disk, files>>

\* results = rank_places(places, center_lat, center_lon, prefs)
RankPlacesTop ==
    /\ call.op = "rank_places"
    /\ out.op = "none"
    /\ out' = [op |-> "rank_places", status |-> "ok",
               value |-> rank_places(call.places, call.prefs)]
    /\ UNCHANGED <<model, rng, seed, pymc, call, disk, files>>

NextPlaces ==
    \/ ScorePlace
    \/ RankPlacesTop

SpecPlaces == InitPlaces /\ [][NextPlaces]_vars

\* how often the place p occurs in a list of places
Occurrences(places, p) == Cardinality({i \in 1..Len(places) : places[i] = p})

\* C24: rank_places returns at most 2 places, sorted by score descending, all
\* taken from the places that pass every filter, each at most as often as it
\* was handed in; no place that passes the filters and is left out has a
\* strictly higher score than a returned one.
C24_RankPlacesTopTwo ==
    out.op = "rank_places" =>
        LET returned == [i \in 1..Len(out.value) |-> out.value[i].place]
            walk(p) == round(60 * p.distance_m, 4500)
            passing(p) ==
                /\ p.category = call.prefs.category
                /\ walk(p) <= call.prefs.max_walk_mins
                /\ call.prefs.veg_only => is_veg_friendly(p.tags, p.name)
        IN  /\ Len(out.value) <= 2
            /\ \A i \in 1..(Len(out.value) - 1) : out.value[i].score >= out.value[i + 1].score
            /\ \A i \in 1..Len(out.value) :
                   /\ passing(returned[i])
                   /\ Occurrences(returned, returned[i])
                          <= Occurrences(call.places, returned[i])
                   /\ out.value[i].score = score_place(returned[i], call.prefs).total_score
            /\ \A p \in Range(call.places) :
                   (passing(p) /\ Occurrences(returned, p) < Occurrences(call.places, p)) =>
                       \A i \in 1..Len(out.value) :
                           score_place(p, call.prefs).total_score <= out.value[i].score

\* three places pass, the first one handed in is the one left out
C24_Witness ==
    /\ out.op = "rank_places"
    /\ Len(call.places) = 3
    /\ \A i \in 1..3 : passes_filters(call.places[i], call.prefs)
    /\ Len(out.value) = 2
    /\ \A i \in 1..2 : out.value[i].place # call.places[1]
    /\ out.value[1].score > out.value[2].score

\* C25: score_place returns a total within [0,100] that is min(100, the sum of
\* the components rounded to the nearest integer), and every component stays
\* in its range: distance 0-50, category 20, vibe 0 or 10, veg 0, 5 or 10 (10
\* only when veg_only is set), completeness 0-10, open bonus 0 or 5.
C25_ScoreWithinRange ==
    out.op = "score_place" =>
        LET m == out.value.metrics
            total == out.value.total_score
            sum60 == m.distance_score
                     + 60 * (m.category_score + m.vibe_score + m.veg_score
                             + m.completeness_score + m.open_bonus)
        IN  /\ 0 <= total /\ total <= 100
            /\ IF sum60 >= 5970 THEN total = 100
               ELSE 60 * total - sum60 <= 30 /\ sum60 - 60 * total <= 30
            /\ 0 <= m.distance_score /\ m.distance_score <= 3000
            /\ m.distance_score = IF call.place.distance_m >= 3000 THEN 0
                                  ELSE 3000 - call.place.distance_m
            /\ m.category_score = 20
            /\ m.vibe_score \in {0, 10}
            /\ m.veg_score \in {0, 5, 10}
            /\ m.veg_score = 10 => call.prefs.veg_only
            /\ ~call.prefs.veg_only => m.veg_score <= 5
            /\ 0 <= m.completeness_score /\ m.completeness_score <= 10
            /\ m.open_bonus \in {0, 5}

\* a place whose components add up to more than 100
C25_Witness ==
    /\ out.op = "score_place"
    /\ out.value.metrics.distance_score
           + 60 * (20 + out.value.metrics.vibe_score + out.value.metrics.veg_score
                   + out.value.metrics.completeness_score + out.value.metrics.open_bonus)
       > 6000
    /\ out.value.total_score = 100


\* ------------------------------------------------------- download_geofabrik
\* A file of data/osm is "absent", "complete" (written to its end by one
\* download) or cut short: a .osm.pbf "partial", a .md5 "empty" (the checksum
\* file is a single chunk, so a download that breaks after open() has written
\* nothing).

REGION_SHORTCUTS == [spain |-> "europe/spain", japan |-> "asia/japan"]

\* REGION_SHORTCUTS.get(region.lower(), region)
resolve_region(region) ==
    IF region \in DOMAIN REGION_SHORTCUTS THEN REGION_SHORTCUTS[region] ELSE region

\* get_download_urls(region)[2]: resolve_region(region).replace("/", "-")
get_download_urls(region) ==
    IF resolve_region(region) = "europe/spain" THEN "europe-spain" ELSE "asia-japan"

Regions == {"spain", "europe/spain", "asia/japan"}

\* how a download can end: "ok"; "refused", urlopen raises (HTTP error, no
\* network) before the destination is opened; "broken", the transfer stops
\* after open(dest_path, 'wb') has truncated the destination
Transfers == {"ok", "refused", "broken"}

\* download_file(url, dest_path): the destination afterwards and the boolean
\* returned, for a transfer ending as `transfer`; `cut` is what a broken
\* transfer leaves
download_file(before, transfer, cut) ==
    IF transfer = "ok" THEN [file |-> "complete", ok |-> TRUE]
    ELSE IF transfer = "refused" THEN [file |-> before, ok |-> FALSE]
    ELSE [file |-> cut, ok |-> FALSE]

\* verify_checksum(pbf_path, md5_path): True without a checksum file, an
\* IndexError from content.split()[0] on an empty one, else the comparison
\* (which only prints)
verify_checksum(md5) ==
    IF md5 = "absent" THEN "ok"
    ELSE IF md5 = "empty" THEN "IndexError"
    ELSE "ok"

\* download_region(region, force) on the files `fs`, the two transfers ending
\* as t_md5 and t_pbf: the files afterwards, the path returned (None for
\* None), whether a download of the PBF file was started and how it ended
download_region(region, force, fs, t_md5, t_pbf) ==
    LET filename == get_download_urls(region)
        pbf_path == Some(filename)
    IN  IF fs[filename].pbf # "absent" /\ ~force
        THEN [status |-> "ok", value |-> pbf_path, files |-> fs, pbf_download |-> "none"]
        ELSE LET md5 == download_file(fs[filename].md5, t_md5, "empty")
                 pbf == download_file(fs[filename].pbf, t_pbf, "partial")
                 after == [fs EXCEPT ![filename] = [pbf |-> pbf.file, md5 |-> md5.file]]
             IN  IF ~pbf.ok
                 THEN [status |-> "ok", value |-> None, files |-> after,
                       pbf_download |-> "failed"]
                 ELSE IF verify_checksum(md5.file) # "ok"
                 THEN [status |-> verify_checksum(md5.file), value |-> None,
                       files |-> after, pbf_download |-> "ok"]
                 ELSE [status |-> "ok", value |-> pbf_path, files |-> after,
                       pbf_download |-> "ok"]

DownloadCalls == [op : {"download_region"}, region : Regions, force : BOOLEAN]

InitDownload ==
    /\ model = None
    /\ rng = 0
    /\ seed = None
    /\ pymc = FALSE
    /\ disk = <<>>
    /\ files = NoFiles
    /\ out = IdleOut
    /\ call \in DownloadCalls

\* the script is run again, for any region
InvokeDownload ==
    /\ out.op # "none"
    /\ call' \in DownloadCalls
    /\ out' = IdleOut
    /\ UNCHANGED <<model, rng, seed, pymc, disk, files>>

\* download_region(region, force): the network decides how each transfer ends
DownloadRegion ==
    /\ call.op = "download_region"
    /\ out.op = "none"
    /\ \E t_md5 \in Transfers, t_pbf \in Transfers :
           LET res == download_region(call.region, call.force, files, t_md5, t_pbf)
           IN  /\ files' = res.files
               /\ out' = [op |-> "download_region", status |-> res.status,
                          value |-> res.value, pbf_download |-> res.pbf_download]
    /\ UNCHANGED <<model, rng, seed, pymc, call, disk>>

NextDownload ==
    \/ InvokeDownload
    \/ DownloadRegion

SpecDownload == InitDownload /\ [][NextDownload]_vars

\* C26: over any sequence of download_region calls, a call returns a path only
\* if the PBF file at that path was completely downloaded by this or an
\* earlier call, and returns None when the download failed; with the file
\* present and force not set, no download is started and the existing path is
\* returned.
C26_DownloadRegionPath ==
    [][(call.op = "download_region" /\ out.op = "none" /\ out'.op = "download_region") =>
           LET filename == get_download_urls(call.region)
           IN  /\ out'.value # None =>
                      /\ out'.value = Some(filename)
                      /\ files'[filename].pbf = "complete"
               /\ out'.pbf_download = "failed" => (out'.status = "ok" /\ out'.value = None)
               /\ (files[filename].pbf # "absent" /\ ~call.force) =>
                      /\ out'.pbf_download = "none"
                      /\ out'.value = Some(filename)
                      /\ files' = files]_vars

====
